---- MODULE Spec2Model ----
(***************************************************************************)
(* Model of the connector execution engine of fail2ban-notify              *)
(* (internal/connectors/manager.go) over the connector registry            *)
(* (internal/config/config.go).                                            *)
(*                                                                         *)
(* A connector name is a sequence of characters and an error message is a  *)
(* sequence of tokens (the fixed pieces of the format strings are single   *)
(* tokens, a name contributes its characters), so that "the text contains  *)
(* the name" is the substring relation of the real strings.                *)
(***************************************************************************)
EXTENDS Integers, Sequences, FiniteSets, TLC

\* ---------------------------------------------------------------- bounds
MaxConn == 2        \* at most this many connectors in the Config
MaxRetry == 1       \* largest RetryCount a connector carries
MaxTestConn == 2    \* connectors in a Config that TestConnector is run on
MaxFailures == 11   \* largest Failures count of a NotificationData
MaxCalls == 2       \* Lookup calls made on one GeoIP manager
MaxTime == 1        \* the clock runs from 0 to this many seconds
MaxBatch == 2       \* longest list handed to BatchLookup
MaxTasks == 6       \* longest list of the runs that fill the semaphore
MaxStatusConn == 2  \* connectors in a Config whose status is asked for
MaxEntries == 2     \* entries of the connector directory
MaxConfConn == 2    \* connectors in a Config that is validated, saved, loaded
MaxRegConn == 3     \* connectors AddConnector lets a Config grow to
MaxClock == 3       \* seconds the run of one child process is followed for

\* ------------------------------------------------------- value universes
Names == { <<"a">>, <<"a", "b">> }
\* how the connectors of a Config are named: all alike, or alternately
NameSchemes == { "same", "alternate" }
KnownTypes == { "script", "http" }
Types == KnownTypes \cup { "ftp" }
\* AddConnector and NewManager do not validate, so -1 reaches the engine
RetryCounts == (0 - 1)..MaxRetry
DefaultRetryDelay == 5

VARIABLES
    Connectors,   \* Config.Connectors: sequence of ConnectorConfig
    mgr,          \* "idle" (no call in progress) or "running"
    op,           \* the call in progress or last returned
    arg,          \* connectorName of the last Execute call
    task,         \* one executeConnector activation per launched connector
    errChan,      \* the buffered error channel of ExecuteAll
    result        \* what the last call returned

\* the state of the engine
engineVars == << Connectors, mgr, op, arg, task, errChan, result >>

VARIABLES
    input,        \* what executeScript is called with: connector and data
    child         \* the command it has prepared: environment and stdin

scriptVars == << input, child >>

VARIABLES
    geo,          \* the GeoIP manager: its config and registered services
    cache,        \* Manager.cache: IP string -> cacheEntry
    now,          \* the clock, in seconds
    calls,        \* the activations of Lookup, in the order they began
    batch         \* the BatchLookup call in progress or last returned

geoVars == << geo, cache, now, calls, batch >>

VARIABLES
    main          \* the notification path of main: position, event, data

VARIABLES
    config,       \* the *Config the administrative operations work on
    fsys,         \* the files they see: connector files, directory, config file
    lastCall      \* the last such operation: its arguments and what it returned

adminVars == << config, fsys, lastCall >>

\* the state outside the engine
nonEngineVars == << scriptVars, geoVars, main, adminVars >>

\* the state outside the GeoIP manager
nonGeoVars == << engineVars, scriptVars, main, adminVars >>

\* the state main's notification path leaves alone, the GeoIP manager apart
nonMainVars == << engineVars, scriptVars, adminVars >>

vars == << engineVars, scriptVars, geoVars, main, adminVars >>

\* no call of executeScript is being looked at
NoInput == [ kind |-> "none" ]
NoChild == [ kind |-> "none" ]

\* no GeoIP manager has been made, no BatchLookup called
NoManager == [ kind |-> "none" ]
NoBatch == [ kind |-> "none" ]
NoCache == [ k \in { } |-> NoManager ]

\* main is not running, no administrative operation is looked at
NoMain == [ kind |-> "none" ]
NoConfig == [ kind |-> "none" ]
NoFiles == [ kind |-> "none" ]
NoCall == [ op |-> "none" ]

AdminUnused ==
    /\ main = NoMain
    /\ config = NoConfig
    /\ fsys = NoFiles
    /\ lastCall = NoCall

GeoUnused ==
    /\ geo = NoManager
    /\ cache = NoCache
    /\ now = 0
    /\ calls = << >>
    /\ batch = NoBatch

\* ------------------------------------------------------------ error values
Nil == [kind |-> "nil"]
Pending == [kind |-> "pending"]

\* the failures a dispatch of a script/executable connector can report
ScriptErrors == { [kind |-> "Timeout"], [kind |-> "ProcessExecutionFailed"] }
\* the failure a dispatch of an http connector can report (a transport error
\* and a status >= 400 are the same kind of failure)
HTTPErrors == { [kind |-> "HTTPRequestFailed"] }

Digits == << "0", "1", "2", "3", "4", "5", "6", "7", "8", "9" >>

RECURSIVE Itoa(_)
Itoa(n) ==
    IF n < 0 THEN << "-" >> \o Itoa(0 - n)
    ELSE IF n < 10 THEN << Digits[n + 1] >>
    ELSE Itoa(n \div 10) \o << Digits[(n % 10) + 1] >>

RECURSIVE Join(_, _)
Join(strs, sep) ==
    IF Len(strs) = 0 THEN << >>
    ELSE IF Len(strs) = 1 THEN strs[1]
    ELSE strs[1] \o sep \o Join(Tail(strs), sep)

RECURSIVE ErrorText(_)
ErrorText(e) ==
    CASE e.kind = "nil" -> << "%!w(<nil>)" >>
      [] e.kind = "Timeout" -> << "connector timed out after " >>
      [] e.kind = "ProcessExecutionFailed" -> << "execution failed: " >>
      [] e.kind = "HTTPRequestFailed" -> << "HTTP request failed: " >>
      [] e.kind = "MissingSetting" ->
            << "HTTP connector missing 'url' setting" >>
      [] e.kind = "UnknownConnectorType" ->
            << "unknown connector type: ", e.type >>
      [] e.kind = "RetriesExhausted" ->
            << "connector " >> \o e.name \o << " failed after " >>
              \o Itoa(e.attempts) \o << " attempts: " >> \o ErrorText(e.cause)
      [] e.kind = "ConnectorFailed" ->
            << "connector " >> \o e.name \o << " failed: " >>
              \o ErrorText(e.cause)
      [] e.kind = "NoConnectorsEnabled" -> << "no enabled connectors found" >>
      [] e.kind = "ConnectorNotFound" ->
            << "connector " >> \o e.name \o << " not found" >>
      [] e.kind = "ConnectorDisabled" ->
            << "connector " >> \o e.name \o << " is disabled" >>
      [] e.kind = "ConnectorFailures" -> e.text

\* ------------------------------------------------------------------ Config
\* the name of the connector at position path under a naming scheme
SchemeName(scheme, path) ==
    IF scheme = "same" \/ path % 2 = 1 THEN << "a" >> ELSE << "a", "b" >>

\* Settings maps: none, and one that holds the key url
NoSettings == [ k \in { } |-> "" ]
URLSettings == [ k \in { "url" } |-> "http://h/" ]

\* Path stands for the program or endpoint the connector runs; every entry
\* has its own. An http connector carries its url here.
ConnectorConfig(scheme, path) ==
    { [ Name |-> SchemeName(scheme, path), Type |-> ty, Enabled |-> en,
        Path |-> path,
        Settings |-> IF ty = "http" THEN URLSettings ELSE NoSettings,
        RetryCount |-> rc, RetryDelay |-> DefaultRetryDelay ] :
      ty \in Types, en \in BOOLEAN, rc \in RetryCounts }

RECURSIVE Configs(_, _)
Configs(scheme, n) ==
    IF n = 0 THEN { << >> }
    ELSE { Append(c, x) : c \in Configs(scheme, n - 1),
                          x \in ConnectorConfig(scheme, n) }

\* variant: the Enabled filter is dropped
GetEnabledConnectors_All(c) == c

GetEnabledConnectors(c) == SelectSeq(c, LAMBDA x : x.Enabled)

GetConnectorByName(c, name) ==
    LET hits == { i \in 1..Len(c) : c[i].Name = name }
    IN  IF hits = { } THEN [found |-> FALSE]
        ELSE [found |-> TRUE,
              connector |-> c[CHOOSE i \in hits : \A j \in hits : i <= j]]

\* ------------------------------------------------------------- dispatch
\* What one dispatch can return: nil, or one of the failures of its kind.
\* The outcome is the external program's or server's, so it is any of them.
executeScript(connector) == { Nil } \cup ScriptErrors

\* variant: the url is not looked up before the request is made
executeHTTP_NoCheck(connector) == { Nil } \cup HTTPErrors

\* without the url setting the function returns before it builds or sends
\* any request; with it, the outcome is that of the request
executeHTTP(connector) ==
    IF "url" \notin DOMAIN connector.Settings
    THEN { [kind |-> "MissingSetting"] }
    ELSE { Nil } \cup HTTPErrors

\* --------------------------------------------------- executeConnector
NewTask(connector) ==
    [ conn |-> connector, pc |-> "top", attempt |-> 0, lastErr |-> Nil,
      ret |-> Pending, log |-> << >> ]

\* variant: the loop bound is off by one
LoopCond_Strict(attempt, connector) == attempt < connector.RetryCount

\* for attempt := 0; attempt <= connector.RetryCount; attempt++
LoopCond(attempt, connector) == attempt <= connector.RetryCount

\* variant: the sleep also precedes the first attempt
NeedsSleep_Always(attempt) == attempt >= 0

\* if attempt > 0 { time.Sleep(RetryDelay) }
NeedsSleep(attempt) == attempt > 0

\* fmt.Errorf("connector %s failed after %d attempts: %w", ...)
ExhaustedError(connector, lastErr) ==
    [ kind |-> "RetriesExhausted", name |-> connector.Name,
      attempts |-> connector.RetryCount + 1, cause |-> lastErr ]

\* variant: the first failure is kept instead of the last
NextLastErr_KeepFirst(lastErr, err) == IF lastErr = Nil THEN err ELSE lastErr

\* lastErr = err
NextLastErr(lastErr, err) == err

\* variant: a failing activation cancels the activations still running
Finish_CancelSiblings(ts, t, err) ==
    [ i \in DOMAIN ts |->
        IF i = t THEN [ ts[i] EXCEPT !.pc = "done", !.ret = err ]
        ELSE IF err # Nil /\ ts[i].pc # "done"
        THEN [ ts[i] EXCEPT !.pc = "done", !.ret = [ kind |-> "Cancelled" ] ]
        ELSE ts[i] ]

\* executeConnector returns err in activation t; no other activation changes
Finish(ts, t, err) == [ ts EXCEPT ![t].pc = "done", ![t].ret = err ]

\* variant: a failing activation sends its error twice
Report_Twice(ch, connector, err) ==
    IF op = "ExecuteAll" /\ err # Nil
    THEN ch \o << [ kind |-> "ConnectorFailed", name |-> connector.Name,
                    cause |-> err ],
                  [ kind |-> "ConnectorFailed", name |-> connector.Name,
                    cause |-> err ] >>
    ELSE ch

\* the goroutine of ExecuteAll sends a wrapped error, and only on failure;
\* Execute hands the error back to its caller unchanged
Report(ch, connector, err) ==
    IF op = "ExecuteAll" /\ err # Nil
    THEN Append(ch, [ kind |-> "ConnectorFailed", name |-> connector.Name,
                      cause |-> err ])
    ELSE ch

\* one iteration of the loop: the sleep before a retry, the dispatch by
\* Type, the return on success or on an unknown type and, on failure,
\* attempt++ and the loop test, with the return that follows when it fails
Attempt(t) ==
    /\ mgr = "running"
    /\ task[t].pc = "top"
    /\ LoopCond(task[t].attempt, task[t].conn)
    /\ LET c == task[t].conn
           slept == IF NeedsSleep(task[t].attempt)
                    THEN [ task EXCEPT ![t].log =
                             Append(@, [ ev |-> "sleep", d |-> c.RetryDelay ]) ]
                    ELSE task
       IN  IF c.Type \notin { "script", "executable", "http" }
           THEN LET err == [ kind |-> "UnknownConnectorType",
                             type |-> c.Type ]
                IN  /\ task' = Finish(slept, t, err)
                    /\ errChan' = Report(errChan, c, err)
           ELSE \E err \in (IF c.Type = "http" THEN executeHTTP(c)
                                               ELSE executeScript(c)) :
                  LET logged == [ slept EXCEPT ![t].log =
                                    Append(@, [ ev |-> "dispatch",
                                                err |-> err ]) ]
                  IN  IF err = Nil
                      THEN /\ task' = Finish(logged, t, Nil)
                           /\ errChan' = Report(errChan, c, Nil)
                      ELSE LET failed == [ logged EXCEPT
                                            ![t].lastErr = NextLastErr(@, err),
                                            ![t].attempt = @ + 1 ]
                               last == ExhaustedError(c, failed[t].lastErr)
                           IN  IF LoopCond(failed[t].attempt, c)
                               THEN /\ task' = failed
                                    /\ errChan' = errChan
                               ELSE /\ task' = Finish(failed, t, last)
                                    /\ errChan' = Report(errChan, c, last)
    /\ UNCHANGED << Connectors, mgr, op, arg, result >>
    /\ UNCHANGED nonEngineVars

\* the loop condition fails on entry (RetryCount < 0): the body never runs
\* and the error returned wraps the nil lastErr
Exhausted(t) ==
    /\ mgr = "running"
    /\ task[t].pc = "top"
    /\ ~LoopCond(task[t].attempt, task[t].conn)
    /\ LET err == ExhaustedError(task[t].conn, task[t].lastErr)
       IN  /\ task' = Finish(task, t, err)
           /\ errChan' = Report(errChan, task[t].conn, err)
    /\ UNCHANGED << Connectors, mgr, op, arg, result >>
    /\ UNCHANGED nonEngineVars

\* ----------------------------------------------------------- ExecuteAll
\* variant: the empty check is missing
NoneEnabled_Never(enabled) == FALSE

\* if len(enabledConnectors) == 0
NoneEnabled(enabled) == Len(enabled) = 0

\* variant: the wait ends when the first activation finishes
WaitGroupDone_Any == \E t \in DOMAIN task : task[t].pc = "done"

\* wg.Wait()
WaitGroupDone == \A t \in DOMAIN task : task[t].pc = "done"

\* variant: the collection stops at the first failure
Aggregate_FirstOnly(ch) ==
    IF Len(ch) > 0
    THEN [ kind |-> "ConnectorFailures",
           text |-> << "connector failures: " >> \o ErrorText(ch[1]) ]
    ELSE Nil

\* range errChan; strings.Join(errors, "; ")
Aggregate(ch) ==
    IF Len(ch) > 0
    THEN [ kind |-> "ConnectorFailures",
           text |-> << "connector failures: " >>
                      \o Join([ i \in 1..Len(ch) |-> ErrorText(ch[i]) ],
                              << "; " >>) ]
    ELSE Nil

CallExecuteAll ==
    /\ mgr = "idle"
    /\ op' = "ExecuteAll"
    /\ arg' = << >>
    /\ errChan' = << >>
    /\ LET enabled == GetEnabledConnectors(Connectors) IN
       IF NoneEnabled(enabled)
       THEN /\ result' = [ kind |-> "NoConnectorsEnabled" ]
            /\ task' = << >>
            /\ mgr' = "idle"
       ELSE /\ result' = Pending
            /\ task' = [ i \in 1..Len(enabled) |-> NewTask(enabled[i]) ]
            /\ mgr' = "running"
    /\ UNCHANGED Connectors
    /\ UNCHANGED nonEngineVars

ReturnExecuteAll ==
    /\ mgr = "running"
    /\ op = "ExecuteAll"
    /\ WaitGroupDone
    /\ result' = Aggregate(errChan)
    /\ mgr' = "idle"
    /\ UNCHANGED << Connectors, op, arg, task, errChan >>
    /\ UNCHANGED nonEngineVars

\* -------------------------------------------------------------- Execute
\* variant: the Enabled check is missing
ExecuteCheck_SkipDisabled(c, connectorName) ==
    IF ~GetConnectorByName(c, connectorName).found
    THEN [ kind |-> "ConnectorNotFound", name |-> connectorName ]
    ELSE Nil

\* the two early returns of Execute; Nil when the connector is to be run
ExecuteCheck(c, connectorName) ==
    LET r == GetConnectorByName(c, connectorName) IN
    IF ~r.found
    THEN [ kind |-> "ConnectorNotFound", name |-> connectorName ]
    ELSE IF ~r.connector.Enabled
    THEN [ kind |-> "ConnectorDisabled", name |-> connectorName ]
    ELSE Nil

CallExecute(connectorName) ==
    /\ mgr = "idle"
    /\ op' = "Execute"
    /\ arg' = connectorName
    /\ errChan' = << >>
    /\ LET err == ExecuteCheck(Connectors, connectorName) IN
       IF err # Nil
       THEN /\ result' = err
            /\ task' = << >>
            /\ mgr' = "idle"
       ELSE /\ result' = Pending
            /\ task' = << NewTask(GetConnectorByName(Connectors,
                                                     connectorName).connector) >>
            /\ mgr' = "running"
    /\ UNCHANGED Connectors
    /\ UNCHANGED nonEngineVars

ReturnExecute ==
    /\ mgr = "running"
    /\ op = "Execute"
    /\ task[1].pc = "done"
    /\ result' = task[1].ret
    /\ mgr' = "idle"
    /\ UNCHANGED << Connectors, op, arg, task, errChan >>
    /\ UNCHANGED nonEngineVars

\* -------------------------------------------------------- TestConnector
\* variant: a disabled connector is refused, as Execute refuses it
TestCheck_RejectDisabled(c, connectorName) == ExecuteCheck(c, connectorName)

\* the one early return of TestConnector; Nil when the connector is to be run
TestCheck(c, connectorName) ==
    IF ~GetConnectorByName(c, connectorName).found
    THEN [ kind |-> "ConnectorNotFound", name |-> connectorName ]
    ELSE Nil

\* variant: GetConnectorByName hands out the address of the entry itself, so
\* the connector is enabled in the Config while the test runs
CallTestConnector_InPlace(connectorName) ==
    /\ mgr = "idle"
    /\ op' = "TestConnector"
    /\ arg' = connectorName
    /\ errChan' = << >>
    /\ LET err == TestCheck(Connectors, connectorName) IN
       IF err # Nil
       THEN /\ result' = err
            /\ task' = << >>
            /\ mgr' = "idle"
            /\ UNCHANGED Connectors
       ELSE LET connector == GetConnectorByName(Connectors,
                                               connectorName).connector
                originalEnabled == connector.Enabled
                i == CHOOSE k \in DOMAIN Connectors :
                        /\ Connectors[k].Name = connectorName
                        /\ \A j \in DOMAIN Connectors :
                              Connectors[j].Name = connectorName => k <= j
            IN  /\ result' = Pending
                /\ task' = << NewTask([ connector EXCEPT !.Enabled = TRUE ])
                                @@ [ originalEnabled |-> originalEnabled ] >>
                /\ mgr' = "running"
                /\ Connectors' = [ Connectors EXCEPT ![i].Enabled = TRUE ]
    /\ UNCHANGED nonEngineVars

\* GetConnectorByName hands out the address of a copy of the entry; the
\* writes to connector.Enabled go to that copy (the conn of the activation),
\* and the value executeConnector receives is the copy with Enabled = true
CallTestConnector(connectorName) ==
    /\ mgr = "idle"
    /\ op' = "TestConnector"
    /\ arg' = connectorName
    /\ errChan' = << >>
    /\ LET err == TestCheck(Connectors, connectorName) IN
       IF err # Nil
       THEN /\ result' = err
            /\ task' = << >>
            /\ mgr' = "idle"
       ELSE LET connector == GetConnectorByName(Connectors,
                                               connectorName).connector
                originalEnabled == connector.Enabled
            IN  /\ result' = Pending
                /\ task' = << NewTask([ connector EXCEPT !.Enabled = TRUE ])
                                @@ [ originalEnabled |-> originalEnabled ] >>
                /\ mgr' = "running"
    /\ UNCHANGED Connectors
    /\ UNCHANGED nonEngineVars

\* the deferred function restores the flag of the copy, then the error of
\* executeConnector is returned
ReturnTestConnector ==
    /\ mgr = "running"
    /\ op = "TestConnector"
    /\ task[1].pc = "done"
    /\ result' = task[1].ret
    /\ task' = [ task EXCEPT ![1].conn.Enabled = task[1].originalEnabled ]
    /\ mgr' = "idle"
    /\ UNCHANGED << Connectors, op, arg, errChan >>
    /\ UNCHANGED nonEngineVars

\* ------------------------------------------------------- specification
Init ==
    /\ Connectors \in UNION { Configs(scheme, n) :
                                scheme \in NameSchemes, n \in 0..MaxConn }
    /\ mgr = "idle"
    /\ op = "none"
    /\ arg = << >>
    /\ task = << >>
    /\ errChan = << >>
    /\ result = Pending
    /\ input = NoInput
    /\ child = NoChild
    /\ GeoUnused
    /\ AdminUnused

Next ==
    \/ CallExecuteAll
    \/ ReturnExecuteAll
    \/ \E connectorName \in Names : CallExecute(connectorName)
    \/ ReturnExecute
    \/ \E t \in DOMAIN task : Attempt(t)
    \/ \E t \in DOMAIN task : Exhausted(t)

Spec == Init /\ [][Next]_vars

\* ---------------------------------------- specification of TestConnector
\* the entries of ConnectorConfig and, besides, http connectors whose
\* Settings hold no url
TestConnectorConfig(scheme, path) ==
    ConnectorConfig(scheme, path)
      \cup { [ c EXCEPT !.Settings = NoSettings ] :
               c \in { x \in ConnectorConfig(scheme, path) : x.Type = "http" } }

RECURSIVE TestConfigs(_, _)
TestConfigs(scheme, n) ==
    IF n = 0 THEN { << >> }
    ELSE { Append(c, x) : c \in TestConfigs(scheme, n - 1),
                          x \in TestConnectorConfig(scheme, n) }

InitTest ==
    /\ Connectors \in UNION { TestConfigs(scheme, n) :
                                scheme \in NameSchemes, n \in 0..MaxTestConn }
    /\ mgr = "idle"
    /\ op = "none"
    /\ arg = << >>
    /\ task = << >>
    /\ errChan = << >>
    /\ result = Pending
    /\ input = NoInput
    /\ child = NoChild
    /\ GeoUnused
    /\ AdminUnused

NextTest ==
    \/ \E connectorName \in Names : CallTestConnector(connectorName)
    \/ ReturnTestConnector
    \/ \E t \in DOMAIN task : Attempt(t)
    \/ \E t \in DOMAIN task : Exhausted(t)

SpecTest == InitTest /\ [][NextTest]_vars

\* ================================================================ claims
\* helpers of the properties below

\* the last call was o and has returned
Returned(o) == mgr = "idle" /\ op = o

Contains(text, s) ==
    \E i \in 0..(Len(text) - Len(s)) : SubSeq(text, i + 1, i + Len(s)) = s

IsPrefix(a, b) == Len(a) <= Len(b) /\ SubSeq(b, 1, Len(a)) = a

IsDone(t) == task[t].pc = "done"

Failed(t) == IsDone(t) /\ task[t].ret # Nil

Succeeded(t) == IsDone(t) /\ task[t].ret = Nil

DispatchIdx(log) == { i \in 1..Len(log) : log[i].ev = "dispatch" }

SleepIdx(log) == { i \in 1..Len(log) : log[i].ev = "sleep" }

FailedIdx(log) == { i \in DispatchIdx(log) : log[i].err # Nil }

\* the outcomes the environment gave to the dispatches of a log, in order
OutcomesOf(log) ==
    LET d == SelectSeq(log, LAMBDA e : e.ev = "dispatch")
    IN  [ i \in 1..Len(d) |-> d[i].err ]

\* the entry "connector <name> failed: <cause>" of a failed activation
EntryText(tk) ==
    << "connector " >> \o tk.conn.Name \o << " failed: " >> \o ErrorText(tk.ret)

Perms(S) ==
    { p \in [ 1..Cardinality(S) -> S ] :
        \A i, j \in 1..Cardinality(S) : i # j => p[i] # p[j] }

AllSucceed == \A t \in DOMAIN task : Succeeded(t)

\* ExecuteAll has returned from a call that launched at least one task
ExecuteAllRan == Returned("ExecuteAll") /\ Len(task) >= 1

\* the Config is one that the data model allows: names are distinct, types
\* are known and no RetryCount is negative
WellFormedConfig ==
    /\ \A i, j \in DOMAIN Connectors :
          Connectors[i].Name = Connectors[j].Name => i = j
    /\ \A i \in DOMAIN Connectors :
          /\ Connectors[i].Type \in { "script", "executable", "http" }
          /\ Connectors[i].RetryCount >= 0

\* C1 (as stated): after ExecuteAll over N >= 1 enabled connectors, the result
\* is nil iff every connector succeeded; otherwise the error text contains
\* the name of every failed connector and the name of no succeeded connector.
\* Stated here for well-formed Configs only, so that a violation owes nothing
\* to two connectors sharing a name or to an unvalidated field.
C1_Original ==
    (ExecuteAllRan /\ WellFormedConfig) =>
        /\ (result = Nil) <=> AllSucceed
        /\ result # Nil =>
             \A t \in DOMAIN task :
                /\ Failed(t) => Contains(ErrorText(result), task[t].conn.Name)
                /\ Succeeded(t) =>
                      ~Contains(ErrorText(result), task[t].conn.Name)

\* C1 (amended): the result is nil iff every connector succeeded; otherwise
\* the error text is the header followed by exactly one entry
\* "connector <name> failed: <cause>" per failed connector, tagged with that
\* connector's name, separated by "; " -- no entry belongs to a connector
\* that succeeded (its name may still occur inside another name or entry).
C1_Amended ==
    ExecuteAllRan =>
        /\ (result = Nil) <=> AllSucceed
        /\ result # Nil =>
             /\ result.kind = "ConnectorFailures"
             /\ \E p \in Perms({ t \in DOMAIN task : Failed(t) }) :
                   ErrorText(result) =
                      << "connector failures: " >>
                        \o Join([ i \in DOMAIN p |-> EntryText(task[p[i]]) ],
                                << "; " >>)

\* a mixed run: one connector failed and another one succeeded
C1_Witness ==
    /\ ExecuteAllRan
    /\ \E t1, t2 \in DOMAIN task : Failed(t1) /\ Succeeded(t2)

\* the retry loop of the specification, run on one connector alone over the
\* outcomes outs; Pending when it needs an outcome that outs does not hold
RECURSIVE SoloLoop(_, _, _, _, _)
SoloLoop(c, outs, attempt, lastErr, log) ==
    IF attempt > c.RetryCount
    THEN [ ret |-> [ kind |-> "RetriesExhausted", name |-> c.Name,
                     attempts |-> c.RetryCount + 1, cause |-> lastErr ],
           log |-> log ]
    ELSE LET log1 == IF attempt > 0
                     THEN Append(log, [ ev |-> "sleep", d |-> c.RetryDelay ])
                     ELSE log
         IN  IF c.Type \notin { "script", "executable", "http" }
             THEN [ ret |-> [ kind |-> "UnknownConnectorType",
                              type |-> c.Type ],
                    log |-> log1 ]
             ELSE IF outs = << >>
             THEN [ ret |-> Pending, log |-> log1 ]
             ELSE LET log2 == Append(log1, [ ev |-> "dispatch",
                                             err |-> Head(outs) ])
                  IN  IF Head(outs) = Nil
                      THEN [ ret |-> Nil, log |-> log2 ]
                      ELSE SoloLoop(c, Tail(outs), attempt + 1, Head(outs),
                                    log2)

Solo(tk) == SoloLoop(tk.conn, OutcomesOf(tk.log), 0, Nil, << >>)

\* C2: in ExecuteAll, under every interleaving, each connector performs the
\* attempts and sleeps, and reaches the outcome, that it would alone on the
\* same dispatch outcomes: whatever its siblings do, its log is a prefix of
\* the solo log and, once it has finished, its log and result are the solo
\* ones.
C2_FaultIsolation ==
    op = "ExecuteAll" =>
        \A t \in DOMAIN task :
            LET alone == Solo(task[t])
            IN  /\ IsPrefix(task[t].log, alone.log)
                /\ IsDone(t) => /\ task[t].ret = alone.ret
                                /\ task[t].log = alone.log

\* a connector has timed out for good while a sibling, which had not finished
\* at that time, went on to succeed after a retry
C2_Witness ==
    /\ op = "ExecuteAll"
    /\ \E t1, t2 \in DOMAIN task :
          /\ Failed(t1)
          /\ task[t1].ret.kind = "RetriesExhausted"
          /\ task[t1].ret.cause.kind = "Timeout"
          /\ Succeeded(t2)
          /\ Len(task[t2].log) = 3
          /\ errChan # << >>

\* every dispatch of the log failed, and there is at least one
EveryDispatchFails(log) ==
    DispatchIdx(log) # { } /\ FailedIdx(log) = DispatchIdx(log)

\* C3: a connector with RetryCount = k >= 0 whose every dispatch fails is,
\* when its sequence ends, dispatched exactly k+1 times and has slept
\* exactly k times, RetryDelay each; the log alternates dispatch, sleep,
\* dispatch, ..., dispatch (no sleep first, none last).
C3_AlwaysFailing ==
    \A t \in DOMAIN task :
        LET k == task[t].conn.RetryCount
            log == task[t].log
        IN  (IsDone(t) /\ k >= 0 /\ EveryDispatchFails(log)) =>
               /\ Cardinality(DispatchIdx(log)) = k + 1
               /\ Cardinality(SleepIdx(log)) = k
               /\ Len(log) = 2 * k + 1
               /\ \A i \in 1..Len(log) :
                     IF i % 2 = 1 THEN log[i].ev = "dispatch"
                     ELSE /\ log[i].ev = "sleep"
                          /\ log[i].d = task[t].conn.RetryDelay

\* a connector with at least one retry has exhausted its sequence
C3_Witness ==
    \E t \in DOMAIN task :
        /\ IsDone(t)
        /\ task[t].conn.RetryCount >= 1
        /\ EveryDispatchFails(task[t].log)
        /\ Cardinality(SleepIdx(task[t].log)) = task[t].conn.RetryCount

\* C4: the sequence stops at the first success: a connector that returned
\* success made i dispatches (1 <= i <= RetryCount+1), of which only the
\* last one succeeded, and i-1 sleeps, each between two dispatches; and once
\* executeConnector has returned, that activation dispatches and sleeps no
\* more.
C4_StopsAtFirstSuccess ==
    /\ [](\A t \in DOMAIN task :
            Succeeded(t) =>
               LET log == task[t].log
                   i == Cardinality(DispatchIdx(log))
               IN  /\ 1 <= i /\ i <= task[t].conn.RetryCount + 1
                   /\ Len(log) = 2 * i - 1
                   /\ Cardinality(SleepIdx(log)) = i - 1
                   /\ \A j \in 1..Len(log) :
                         IF j % 2 = 1 THEN log[j].ev = "dispatch"
                                      ELSE log[j].ev = "sleep"
                   /\ log[Len(log)].err = Nil
                   /\ FailedIdx(log) = DispatchIdx(log) \ { Len(log) })
    /\ [][mgr = "running" =>
            \A t \in DOMAIN task : IsDone(t) => task'[t] = task[t]]_vars

\* a connector succeeded on a retry, after a failure and a sleep
C4_Witness ==
    \E t \in DOMAIN task :
        /\ Succeeded(t)
        /\ Cardinality(DispatchIdx(task[t].log)) >= 2

\* C5: ExecuteAll launches one retry sequence per connector entry whose
\* Enabled flag is true and none for an entry whose flag is false (an entry
\* is identified by its Path); so no disabled connector is ever dispatched.
C5_ExactlyEnabled ==
    op = "ExecuteAll" =>
        /\ Len(task) = Cardinality({ i \in DOMAIN Connectors :
                                       Connectors[i].Enabled })
        /\ \A i \in DOMAIN Connectors :
              Connectors[i].Enabled =>
                 \E t \in DOMAIN task : task[t].conn = Connectors[i]
        /\ \A t \in DOMAIN task :
              /\ task[t].conn.Enabled
              /\ task[t].conn = Connectors[task[t].conn.Path]

\* ExecuteAll has dispatched an enabled connector of a Config that also
\* holds a disabled one
C5_Witness ==
    /\ op = "ExecuteAll"
    /\ \E i \in DOMAIN Connectors : ~Connectors[i].Enabled
    /\ \E t \in DOMAIN task : DispatchIdx(task[t].log) # { }

\* C6: ExecuteAll computes its result only after every task it launched has
\* finished its whole retry sequence (once the result exists no task is
\* running and the channel holds one report per failed task), and the
\* aggregate error contains the entry of every failed task, not only of the
\* first.
C6_WaitsForAll ==
    (op = "ExecuteAll" /\ result # Pending /\ Len(task) >= 1) =>
        /\ \A t \in DOMAIN task : IsDone(t)
        /\ Len(errChan) = Cardinality({ t \in DOMAIN task : Failed(t) })
        /\ \A t \in DOMAIN task :
              Failed(t) => Contains(ErrorText(result), EntryText(task[t]))

\* ExecuteAll returned after two connectors failed
C6_Witness ==
    /\ ExecuteAllRan
    /\ \E t1, t2 \in DOMAIN task : t1 # t2 /\ Failed(t1) /\ Failed(t2)
    /\ result.kind = "ConnectorFailures"

\* the reports of the failed tasks in launch order, which is what the
\* channel holds when the tasks finish one after the other in that order
RECURSIVE InLaunchOrder(_)
InLaunchOrder(ts) ==
    IF ts = << >> THEN << >>
    ELSE LET rest == InLaunchOrder(SubSeq(ts, 1, Len(ts) - 1))
             last == ts[Len(ts)]
         IN  IF last.ret # Nil
             THEN Append(rest, [ kind |-> "ConnectorFailed",
                                 name |-> last.conn.Name,
                                 cause |-> last.ret ])
             ELSE rest

\* C7: for a fixed Config and fixed dispatch outcomes, the error ExecuteAll
\* returns is the same under every interleaving. The schedule in which the
\* tasks finish in launch order is one of the interleavings, and it yields
\* the aggregate of the failures in launch order; so the claim says that
\* every run returns that aggregate. Stated for well-formed Configs only,
\* so that a violation owes nothing to an unvalidated field.
C7_OrderIndependent ==
    (ExecuteAllRan /\ WellFormedConfig) =>
        ErrorText(result) = ErrorText(Aggregate(InLaunchOrder(task)))

\* the error of the last dispatch of a log; nil when nothing was dispatched
LastDispatchErr(log) ==
    IF DispatchIdx(log) = { } THEN Nil
    ELSE log[CHOOSE i \in DispatchIdx(log) :
                \A j \in DispatchIdx(log) : j <= i].err

\* the loop of an activation ran out: RetryCount+1 dispatches, all failed
RetriesRanOut(t) ==
    /\ IsDone(t)
    /\ Cardinality(FailedIdx(task[t].log)) = task[t].conn.RetryCount + 1

\* C8: when a retry sequence is exhausted, the failure returned names the
\* connector, reports RetryCount+1 attempts and wraps the error of the last
\* attempt, not of an earlier one; the name and the count are in its text.
C8_ExhaustedFailure ==
    \A t \in DOMAIN task :
        RetriesRanOut(t) =>
           /\ task[t].ret.kind = "RetriesExhausted"
           /\ task[t].ret.name = task[t].conn.Name
           /\ task[t].ret.attempts = task[t].conn.RetryCount + 1
           /\ task[t].ret.cause = LastDispatchErr(task[t].log)
           /\ ErrorText(task[t].ret) =
                 << "connector " >> \o task[t].conn.Name
                   \o << " failed after " >>
                   \o Itoa(task[t].conn.RetryCount + 1)
                   \o << " attempts: " >>
                   \o ErrorText(LastDispatchErr(task[t].log))

\* a sequence was exhausted whose last attempt failed differently from its
\* first
C8_Witness ==
    \E t \in DOMAIN task :
        /\ RetriesRanOut(t)
        /\ Len(task[t].log) >= 3
        /\ task[t].log[1].err # LastDispatchErr(task[t].log)

NoEnabledConnector == \A i \in DOMAIN Connectors : ~Connectors[i].Enabled

\* C9: ExecuteAll called when no connector is enabled returns at once with
\* the NoConnectorsEnabled error: the call never is in progress, launches no
\* task, and nothing is dispatched or reported.
C9_NoConnectorsEnabled ==
    (op = "ExecuteAll" /\ NoEnabledConnector) =>
        /\ mgr = "idle"
        /\ result = [ kind |-> "NoConnectorsEnabled" ]
        /\ task = << >>
        /\ errChan = << >>

\* ExecuteAll was called on a Config that holds connectors, all disabled
C9_Witness ==
    /\ op = "ExecuteAll"
    /\ NoEnabledConnector
    /\ Len(Connectors) >= 1
    /\ result.kind = "NoConnectorsEnabled"

\* the entries of the Config that carry the name
Named(name) == { i \in DOMAIN Connectors : Connectors[i].Name = name }

\* the entry a name stands for: the first one that carries it
Resolve(name) == CHOOSE i \in Named(name) : \A j \in Named(name) : i <= j

\* C10: Execute(name) fails with ConnectorNotFound when no connector carries
\* the name and with ConnectorDisabled when the connector of that name (the
\* first entry that carries it) has Enabled = false, in both cases at once
\* and without any task or dispatch; otherwise it runs the retry sequence of
\* that one connector and of no other, and returns its result.
C10_Execute ==
    op = "Execute" =>
        IF Named(arg) = { }
        THEN /\ mgr = "idle"
             /\ result = [ kind |-> "ConnectorNotFound", name |-> arg ]
             /\ task = << >>
        ELSE IF ~Connectors[Resolve(arg)].Enabled
        THEN /\ mgr = "idle"
             /\ result = [ kind |-> "ConnectorDisabled", name |-> arg ]
             /\ task = << >>
        ELSE /\ Len(task) = 1
             /\ task[1].conn = Connectors[Resolve(arg)]
             /\ errChan = << >>
             /\ mgr = "idle" => /\ IsDone(1)
                                /\ result = task[1].ret
                                /\ result = Solo(task[1]).ret
                                /\ task[1].log = Solo(task[1]).log

\* Execute was refused for a disabled connector while another connector of
\* the Config is enabled
C10_Witness ==
    /\ op = "Execute"
    /\ result.kind = "ConnectorDisabled"
    /\ \E i \in DOMAIN Connectors : Connectors[i].Enabled

\* C11: TestConnector on a configured connector (the first entry that
\* carries the name) whose Enabled flag is false is not refused: it runs the
\* retry sequence of that connector and returns its result; and no step of
\* the call changes the Config, so that when the call has returned, with
\* success or with a failure, the connector's Enabled flag in the Config is
\* what it was before the call (false).
C11_TestDisabled ==
    /\ []((op = "TestConnector" /\ Named(arg) # { }
            /\ ~Connectors[Resolve(arg)].Enabled) =>
             /\ Len(task) = 1
             /\ [ task[1].conn EXCEPT !.Enabled = FALSE ]
                   = Connectors[Resolve(arg)]
             /\ IsPrefix(task[1].log, Solo(task[1]).log)
             /\ mgr = "idle" => /\ IsDone(1)
                                /\ result = task[1].ret
                                /\ result = Solo(task[1]).ret
                                /\ task[1].log = Solo(task[1]).log
                                /\ result.kind # "ConnectorDisabled")
    /\ [][op' = "TestConnector" => Connectors' = Connectors]_vars

\* TestConnector has returned the failure of a disabled connector that was
\* dispatched more than once, and the connector is still disabled
C11_Witness ==
    /\ Returned("TestConnector")
    /\ Named(arg) # { }
    /\ ~Connectors[Resolve(arg)].Enabled
    /\ result.kind = "RetriesExhausted"
    /\ Cardinality(DispatchIdx(task[1].log)) >= 2

\* an http connector whose Settings hold no url
LacksURL(c) == c.Type = "http" /\ "url" \notin DOMAIN c.Settings

\* C12: an http connector whose Settings lack the key url and whose
\* RetryCount is k >= 0 goes through the whole retry loop: every attempt it
\* makes returns the missing-url error, which executeHTTP returns before it
\* makes a request (no attempt has the outcome of a request); when the
\* sequence has ended there were k+1 attempts and k sleeps, alternating, and
\* the result is the retries-exhausted failure of k+1 attempts that wraps
\* the missing-url error.
C12_MissingURL ==
    \A t \in DOMAIN task :
        LET k == task[t].conn.RetryCount
            log == task[t].log
        IN  (LacksURL(task[t].conn) /\ k >= 0) =>
               /\ \A i \in DispatchIdx(log) :
                     /\ log[i].err = [ kind |-> "MissingSetting" ]
                     /\ log[i].err \notin executeHTTP_NoCheck(task[t].conn)
               /\ Cardinality(DispatchIdx(log)) <= k + 1
               /\ IsDone(t) =>
                     /\ Cardinality(DispatchIdx(log)) = k + 1
                     /\ Cardinality(SleepIdx(log)) = k
                     /\ Len(log) = 2 * k + 1
                     /\ \A i \in 1..Len(log) :
                           IF i % 2 = 1 THEN log[i].ev = "dispatch"
                           ELSE /\ log[i].ev = "sleep"
                                /\ log[i].d = task[t].conn.RetryDelay
                     /\ task[t].ret =
                           [ kind |-> "RetriesExhausted",
                             name |-> task[t].conn.Name, attempts |-> k + 1,
                             cause |-> [ kind |-> "MissingSetting" ] ]

\* an http connector without url and with a retry has ended its sequence
C12_Witness ==
    \E t \in DOMAIN task :
        /\ LacksURL(task[t].conn)
        /\ task[t].conn.RetryCount >= 1
        /\ IsDone(t)
        /\ Len(task[t].log) = 2 * task[t].conn.RetryCount + 1

\* ======================================= executeScript: the child process
\* A text is a sequence of tokens; the empty string is the empty sequence.
DataIPs == { << "10.0.0.5" >>, << "203.0.113.9" >> }
Jails == { << "sshd" >>, << "nginx" >> }
Actions == { << "ban" >>, << "unban" >> }

\* the records the caller hands over before GeoIP enrichment
NotificationData ==
    [ IP : DataIPs, Jail : Jails, Action : Actions, Time : { 0 },
      Country : { << >> }, Region : { << >> }, City : { << >> },
      ISP : { << >> }, Hostname : { << >> }, Failures : 0..MaxFailures,
      Timezone : { << >> }, Latitude : { 0 }, Longitude : { 0 } ]

\* Settings of a script connector: none, its own variables, and keys that
\* are also names of the engine's variables
ScriptSettings ==
    { NoSettings,
      [ k \in { "TOKEN" } |-> << "t" >> ],
      [ k \in { "F2B_IP" } |-> << "0.0.0.0" >> ],
      [ k \in { "F2B_FAILURES" } |-> << "many" >> ],
      [ k \in { "TOKEN", "F2B_ACTION" } |->
          IF k = "TOKEN" THEN << "t" >> ELSE << "test" >> ] }

ScriptConnectors ==
    [ Name : { << "a" >> }, Type : { "script", "executable" },
      Enabled : { TRUE }, Path : { 1 }, Settings : ScriptSettings,
      RetryCount : { 0 }, RetryDelay : { DefaultRetryDelay } ]

\* os.Environ(): what the notifier itself inherited
Environs ==
    { << [ key |-> "PATH", value |-> << "/bin" >> ] >>,
      << [ key |-> "PATH", value |-> << "/bin" >> ],
         [ key |-> "F2B_JAIL", value |-> << "stale" >> ] >> }

\* data.Time.Format(time.RFC3339) and data.Time.Unix() of the one instant the
\* model knows
RFC3339(t) == << "1970-01-01T00:00:0", Digits[t + 1], "Z" >>

\* variant: F2B_ACTION is filled from the wrong field
NotificationEnv_WrongField(data) ==
    << [ key |-> "F2B_IP", value |-> data.IP ],
       [ key |-> "F2B_JAIL", value |-> data.Jail ],
       [ key |-> "F2B_ACTION", value |-> data.Jail ],
       [ key |-> "F2B_TIME", value |-> RFC3339(data.Time) ],
       [ key |-> "F2B_TIMESTAMP", value |-> Itoa(data.Time) ],
       [ key |-> "F2B_COUNTRY", value |-> data.Country ],
       [ key |-> "F2B_REGION", value |-> data.Region ],
       [ key |-> "F2B_CITY", value |-> data.City ],
       [ key |-> "F2B_ISP", value |-> data.ISP ],
       [ key |-> "F2B_HOSTNAME", value |-> data.Hostname ],
       [ key |-> "F2B_FAILURES", value |-> Itoa(data.Failures) ] >>

\* the F2B_* variables, in the order they are appended
NotificationEnv(data) ==
    << [ key |-> "F2B_IP", value |-> data.IP ],
       [ key |-> "F2B_JAIL", value |-> data.Jail ],
       [ key |-> "F2B_ACTION", value |-> data.Action ],
       [ key |-> "F2B_TIME", value |-> RFC3339(data.Time) ],
       [ key |-> "F2B_TIMESTAMP", value |-> Itoa(data.Time) ],
       [ key |-> "F2B_COUNTRY", value |-> data.Country ],
       [ key |-> "F2B_REGION", value |-> data.Region ],
       [ key |-> "F2B_CITY", value |-> data.City ],
       [ key |-> "F2B_ISP", value |-> data.ISP ],
       [ key |-> "F2B_HOSTNAME", value |-> data.Hostname ],
       [ key |-> "F2B_FAILURES", value |-> Itoa(data.Failures) ] >>

\* for key, value := range connector.Settings, in the order of the iteration
SettingsEnv(settings, order) ==
    [ i \in 1..Len(order) |->
        [ key |-> order[i], value |-> settings[order[i]] ] ]

\* what the child reads for a key: of the entries of cmd.Env that carry the
\* key, the last one; the empty text when there is none
Getenv(env, key) ==
    LET hits == { i \in 1..Len(env) : env[i].key = key }
    IN  IF hits = { } THEN << >>
        ELSE env[CHOOSE i \in hits : \A j \in hits : j <= i].value

JSONString(text) == [ type |-> "string", v |-> text ]
JSONNumber(n) == [ type |-> "number", v |-> Itoa(n) ]

\* json.Marshal(data): one member per field in declaration order under the
\* key of its tag; a field tagged omitempty is left out when it is "" or 0
Marshal(data) ==
    << [ key |-> "ip", value |-> JSONString(data.IP) ],
       [ key |-> "jail", value |-> JSONString(data.Jail) ],
       [ key |-> "action", value |-> JSONString(data.Action) ],
       [ key |-> "time", value |-> JSONString(RFC3339(data.Time)) ],
       [ key |-> "country", value |-> JSONString(data.Country) ],
       [ key |-> "region", value |-> JSONString(data.Region) ],
       [ key |-> "city", value |-> JSONString(data.City) ],
       [ key |-> "isp", value |-> JSONString(data.ISP) ] >>
    \o (IF data.Hostname = << >> THEN << >>
        ELSE << [ key |-> "hostname",
                  value |-> JSONString(data.Hostname) ] >>)
    \o (IF data.Failures = 0 THEN << >>
        ELSE << [ key |-> "failures",
                  value |-> JSONNumber(data.Failures) ] >>)
    \o << [ key |-> "timezone", value |-> JSONString(data.Timezone) ],
          [ key |-> "latitude", value |-> JSONNumber(data.Latitude) ],
          [ key |-> "longitude", value |-> JSONNumber(data.Longitude) ] >>

\* executeScript up to cmd.Stdin = ...: the environment and the input of the
\* child are fixed here, before the command runs
PrepareCommand ==
    /\ input # NoInput
    /\ child = NoChild
    /\ input.connector.Type \in { "script", "executable" }
    /\ \E order \in Perms(DOMAIN input.connector.Settings) :
          child' = [ kind |-> "cmd",
                     Env |-> input.environ
                               \o NotificationEnv(input.data)
                               \o SettingsEnv(input.connector.Settings, order),
                     Stdin |-> Marshal(input.data) ]
    /\ UNCHANGED << input, engineVars, geoVars, main, adminVars >>

InitScript ==
    /\ Connectors = << >>
    /\ mgr = "idle"
    /\ op = "none"
    /\ arg = << >>
    /\ task = << >>
    /\ errChan = << >>
    /\ result = Pending
    /\ input \in [ connector : ScriptConnectors, data : NotificationData,
                   environ : Environs ]
    /\ child = NoChild
    /\ GeoUnused
    /\ AdminUnused

NextScript == PrepareCommand

SpecScript == InitScript /\ [][NextScript]_vars

\* the members of a JSON object that carry the key
Members(obj, key) == { i \in 1..Len(obj) : obj[i].key = key }

\* the object has exactly one member with the key, and it has the value
HasMember(obj, key, value) ==
    /\ Cardinality(Members(obj, key)) = 1
    /\ \A i \in Members(obj, key) : obj[i].value = value

Prepared == child # NoChild

\* C13 (as stated): for every NotificationData dispatched to a script or
\* executable connector, the child's F2B_IP, F2B_JAIL, F2B_ACTION and
\* F2B_FAILURES equal the record's IP, Jail, Action and Failures (in decimal),
\* and the JSON object on its standard input holds the same values.
C13_Original ==
    Prepared =>
        /\ Getenv(child.Env, "F2B_IP") = input.data.IP
        /\ Getenv(child.Env, "F2B_JAIL") = input.data.Jail
        /\ Getenv(child.Env, "F2B_ACTION") = input.data.Action
        /\ Getenv(child.Env, "F2B_FAILURES") = Itoa(input.data.Failures)
        /\ HasMember(child.Stdin, "ip", JSONString(input.data.IP))
        /\ HasMember(child.Stdin, "jail", JSONString(input.data.Jail))
        /\ HasMember(child.Stdin, "action", JSONString(input.data.Action))
        /\ HasMember(child.Stdin, "failures",
                     JSONNumber(input.data.Failures))

\* the value the child reads for one of the engine's variables
ExpectedEnv(key, value) ==
    IF key \in DOMAIN input.connector.Settings
    THEN input.connector.Settings[key]
    ELSE value

\* C13 (amended): each of F2B_IP, F2B_JAIL, F2B_ACTION and F2B_FAILURES that
\* the child reads equals the record's IP, Jail, Action and Failures (in
\* decimal), whatever the notifier inherited, unless the connector's
\* Settings hold that key, in which case it is the Settings value; the JSON
\* object on standard input holds ip, jail and action with the record's
\* values, and holds failures with the record's value exactly when Failures
\* is not 0 (for 0 the member is left out).
C13_Amended ==
    Prepared =>
        /\ Getenv(child.Env, "F2B_IP") = ExpectedEnv("F2B_IP", input.data.IP)
        /\ Getenv(child.Env, "F2B_JAIL")
              = ExpectedEnv("F2B_JAIL", input.data.Jail)
        /\ Getenv(child.Env, "F2B_ACTION")
              = ExpectedEnv("F2B_ACTION", input.data.Action)
        /\ Getenv(child.Env, "F2B_FAILURES")
              = ExpectedEnv("F2B_FAILURES", Itoa(input.data.Failures))
        /\ HasMember(child.Stdin, "ip", JSONString(input.data.IP))
        /\ HasMember(child.Stdin, "jail", JSONString(input.data.Jail))
        /\ HasMember(child.Stdin, "action", JSONString(input.data.Action))
        /\ IF input.data.Failures = 0
           THEN Members(child.Stdin, "failures") = { }
           ELSE HasMember(child.Stdin, "failures",
                          JSONNumber(input.data.Failures))

\* the record of the scenario (10.0.0.5, sshd, ban, 3 failures) has been
\* prepared for a script whose Settings name none of the engine's variables,
\* under an inherited environment that holds a stale F2B_JAIL
C13_Witness ==
    /\ Prepared
    /\ input.data.IP = << "10.0.0.5" >>
    /\ input.data.Jail = << "sshd" >>
    /\ input.data.Action = << "ban" >>
    /\ input.data.Failures = 3
    /\ input.connector.Type = "script"
    /\ DOMAIN input.connector.Settings = { "TOKEN" }
    /\ Len(input.environ) = 2
    /\ Getenv(child.Env, "F2B_FAILURES") = << "3" >>
    /\ Getenv(child.Env, "F2B_JAIL") = << "sshd" >>

\* ============================================================== GeoIP
\* An IP string is written as the numbers of its groups: four of an IPv4
\* address, eight of an IPv6 address; anything else does not parse.
PublicIPs == { << 8, 8, 8, 8 >>, << 172, 32, 0, 1 >> }
PrivateIPs ==
    { << 192, 168, 1, 1 >>, << 127, 0, 0, 1 >>, << 169, 254, 1, 1 >>,
      << 64768, 0, 0, 0, 0, 0, 0, 1 >> }
InvalidIPs == { << 256, 1, 1, 1 >>, << 8, 8, 8 >> }
IPStrings == PublicIPs \cup PrivateIPs \cup InvalidIPs

DefaultTTL == 3600
TTLs == { 1, DefaultTTL }

\* config.GeoIPConfig
GeoIPConfig ==
    [ Enabled : BOOLEAN, APIKey : { "", "key" },
      Service : { "ipapi", "ipgeolocation" }, Cache : BOOLEAN, TTL : TTLs ]

\* the services NewManager registers
Services(cfg) ==
    { "ipapi" } \cup (IF cfg.APIKey # "" THEN { "ipgeolocation" } ELSE { })

NewManager(cfg) == [ kind |-> "manager", config |-> cfg,
                     services |-> Services(cfg) ]

\* variant: the groups of a dotted quad are not range-checked
ParseIP_Lenient(ip) == Len(ip) = 4 \/ Len(ip) = 8

\* net.ParseIP(ip) # nil
ParseIP(ip) ==
    \/ Len(ip) = 4 /\ \A i \in 1..4 : ip[i] \in 0..255
    \/ Len(ip) = 8 /\ \A i \in 1..8 : ip[i] \in 0..65535

IsV4(ip) == Len(ip) = 4

Pow2(n) == 2 ^ n

\* the first 24 bits of an IPv4 address (no network below is narrower)
V4Prefix(ip) == (ip[1] * 256 + ip[2]) * 256 + ip[3]

\* variant: 192.168.0.0/16 is written as 192.168.0.0/24
PrivateCIDRs_Narrow ==
    << [ net |-> << 127, 0, 0, 0 >>, bits |-> 8 ],
       [ net |-> << 10, 0, 0, 0 >>, bits |-> 8 ],
       [ net |-> << 172, 16, 0, 0 >>, bits |-> 12 ],
       [ net |-> << 192, 168, 0, 0 >>, bits |-> 24 ],
       [ net |-> << 169, 254, 0, 0 >>, bits |-> 16 ] >>

\* the private IPv4 ranges
PrivateCIDRs ==
    << [ net |-> << 127, 0, 0, 0 >>, bits |-> 8 ],
       [ net |-> << 10, 0, 0, 0 >>, bits |-> 8 ],
       [ net |-> << 172, 16, 0, 0 >>, bits |-> 12 ],
       [ net |-> << 192, 168, 0, 0 >>, bits |-> 16 ],
       [ net |-> << 169, 254, 0, 0 >>, bits |-> 16 ] >>

\* network.Contains(parsedIP): an IPv6 address is in no IPv4 network
CIDRContains(cidr, ip) ==
    /\ IsV4(ip)
    /\ V4Prefix(ip) \div Pow2(24 - cidr.bits)
         = V4Prefix(cidr.net) \div Pow2(24 - cidr.bits)

isPrivateIP(ip) ==
    IF ~ParseIP(ip) THEN FALSE
    ELSE IF \E i \in 1..Len(PrivateCIDRs) : CIDRContains(PrivateCIDRs[i], ip)
    THEN TRUE
    ELSE IF ~IsV4(ip)
    THEN \/ ip = << 0, 0, 0, 0, 0, 0, 0, 1 >>            \* IsLoopback
         \/ ip[1] \div 64 = 65152 \div 64                 \* fe80::/10
         \/ (ip[1] \div 256) \div 2 = 252 \div 2          \* fc00::/7
    ELSE FALSE

\* geoip.Info; the empty string and 0 stand for "unknown"
Info(ip, country, region, city, isp) ==
    [ IP |-> ip, Country |-> country, Region |-> region, City |-> city,
      ISP |-> isp, Timezone |-> "", Lat |-> 0, Lon |-> 0 ]

\* &Info{IP: ip}
IPOnly(ip) == Info(ip, "", "", "", "")

PrivateInfo(ip) == Info(ip, "Private Network", "Local", "Internal", "Private")

\* what the backend may answer for an IP: a failure, or one of the GeoInfos
\* it knows (its answer may change from one request to the next)
ServiceLookup(ip) ==
    { [ ok |-> FALSE ] }
      \cup { [ ok |-> TRUE, info |-> Info(ip, c, "r", "c", "isp") ] :
               c \in { "US", "DE" } }

\* variant: an entry that is exactly TTL seconds old counts as stale
getCached_Strict(c, t, ttl, ip) ==
    IF ip \notin DOMAIN c THEN Nil
    ELSE IF t - c[ip].timestamp >= ttl THEN Nil
    ELSE c[ip].info

\* Nil when there is no entry or the entry is older than TTL seconds
getCached(c, t, ttl, ip) ==
    IF ip \notin DOMAIN c THEN Nil
    ELSE IF t - c[ip].timestamp > ttl THEN Nil
    ELSE c[ip].info

\* variant: an overwrite keeps the timestamp of the entry it replaces
setCached_KeepStamp(c, t, ip, info) ==
    [ k \in DOMAIN c \cup { ip } |->
        IF k = ip
        THEN [ info |-> info,
               timestamp |-> IF ip \in DOMAIN c THEN c[ip].timestamp ELSE t ]
        ELSE c[k] ]

setCached(c, t, ip, info) ==
    [ k \in DOMAIN c \cup { ip } |->
        IF k = ip THEN [ info |-> info, timestamp |-> t ] ELSE c[k] ]

\* ------------------------------------------------------------- Lookup
\* an activation of Lookup that has returned info and err at time t without
\* a look at the cache or a call of the backend
Return(ip, info, err, t) ==
    [ ip |-> ip, pc |-> "done", info |-> info, err |-> err, backend |-> 0,
      answer |-> Nil, read |-> FALSE, saw |-> Nil, wrote |-> FALSE,
      ended |-> t ]

\* variant: the switch is ignored
Disabled_Never(m) == FALSE

\* if !m.config.Enabled
Disabled(m) == ~m.config.Enabled

\* Lookup from its entry to its return or, if the backend has to be asked,
\* to the call of service.Lookup. read: getCached was called; saw: the
\* entry it found under the IP, valid or not.
LookupStart(m, c, t, ip) ==
    IF Disabled(m) THEN Return(ip, IPOnly(ip), Nil, t)
    ELSE IF ~ParseIP(ip)
    THEN Return(ip, Nil, [ kind |-> "InvalidIP", ip |-> ip ], t)
    ELSE IF isPrivateIP(ip) THEN Return(ip, PrivateInfo(ip), Nil, t)
    ELSE LET cached == IF m.config.Cache
                       THEN getCached(c, t, m.config.TTL, ip)
                       ELSE Nil
             looked == [ Return(ip, Nil, Nil, t) EXCEPT
                           !.read = m.config.Cache,
                           !.saw = IF m.config.Cache /\ ip \in DOMAIN c
                                   THEN c[ip] ELSE Nil ]
         IN  IF cached # Nil THEN [ looked EXCEPT !.info = cached ]
             ELSE IF m.config.Service \notin m.services
             THEN [ looked EXCEPT
                      !.err = [ kind |-> "UnknownService",
                                service |-> m.config.Service ] ]
             ELSE [ looked EXCEPT !.pc = "backend" ]

\* variant: the error of the backend is handed to the caller
LookupFinish_Propagate(m, a, answer, t) ==
    IF ~answer.ok
    THEN [ a EXCEPT !.pc = "done", !.backend = @ + 1, !.answer = answer,
                    !.err = [ kind |-> "BackendFailed" ], !.ended = t ]
    ELSE [ a EXCEPT !.pc = "done", !.backend = @ + 1, !.answer = answer,
                    !.info = answer.info, !.wrote = m.config.Cache,
                    !.ended = t ]

\* Lookup from the return of service.Lookup to its own return, at time t
LookupFinish(m, a, answer, t) ==
    IF ~answer.ok
    THEN [ a EXCEPT !.pc = "done", !.backend = @ + 1, !.answer = answer,
                    !.info = IPOnly(a.ip), !.ended = t ]
    ELSE [ a EXCEPT !.pc = "done", !.backend = @ + 1, !.answer = answer,
                    !.info = answer.info, !.wrote = m.config.Cache,
                    !.ended = t ]

\* variant: what Lookup returns is stored whether the backend failed or not
CacheAfter_Always(m, c, t, a, answer) ==
    IF m.config.Cache
    THEN setCached(c, t, a.ip,
                   IF answer.ok THEN answer.info ELSE IPOnly(a.ip))
    ELSE c

\* the cache after that return
CacheAfter(m, c, t, a, answer) ==
    IF answer.ok /\ m.config.Cache THEN setCached(c, t, a.ip, answer.info)
    ELSE c

\* a caller enters Lookup(ip); began and prior record when it did, and
\* which earlier calls had returned by then
LookupCall(ip) ==
    /\ geo # NoManager
    /\ batch = NoBatch
    /\ Len(calls) < MaxCalls
    /\ calls' = Append(calls,
                       LookupStart(geo, cache, now, ip)
                         @@ [ began |-> now,
                              prior |-> { i \in DOMAIN calls :
                                            calls[i].pc = "done" } ])
    /\ UNCHANGED << geo, cache, now, batch, nonGeoVars >>

\* the backend answers call i
LookupService(i) ==
    /\ calls[i].pc = "backend"
    /\ \E answer \in ServiceLookup(calls[i].ip) :
          /\ calls' = [ calls EXCEPT
                          ![i] = LookupFinish(geo, @, answer, now) ]
          /\ cache' = CacheAfter(geo, cache, now, calls[i], answer)
    /\ UNCHANGED << geo, now, batch, nonGeoVars >>

ClearCache ==
    /\ geo # NoManager
    /\ cache' = NoCache
    /\ UNCHANGED << geo, now, calls, batch, nonGeoVars >>

\* a second passes
Tick ==
    /\ geo # NoManager
    /\ now < MaxTime
    /\ now' = now + 1
    /\ UNCHANGED << geo, cache, calls, batch, nonGeoVars >>

EngineUnused ==
    /\ Connectors = << >>
    /\ mgr = "idle"
    /\ op = "none"
    /\ arg = << >>
    /\ task = << >>
    /\ errChan = << >>
    /\ result = Pending
    /\ input = NoInput
    /\ child = NoChild

InitGeo ==
    /\ EngineUnused
    /\ AdminUnused
    /\ geo \in { NewManager(cfg) : cfg \in GeoIPConfig }
    /\ cache = NoCache
    /\ now = 0
    /\ calls = << >>
    /\ batch = NoBatch

NextGeo ==
    \/ \E ip \in IPStrings : LookupCall(ip)
    \/ \E i \in DOMAIN calls : LookupService(i)
    \/ ClearCache
    \/ Tick

SpecGeo == InitGeo /\ [][NextGeo]_vars

\* -------------------------------------------------- claims about Lookup
CallDone(i) == calls[i].pc = "done"

\* the private, loopback and link-local ranges, written out by hand:
\* 10/8, 172.16/12, 192.168/16, 127/8, 169.254/16, ::1, fe80::/10, fc00::/7
InPrivateRange(ip) ==
    \/ /\ Len(ip) = 4
       /\ \A n \in 1..4 : ip[n] \in 0..255
       /\ \/ ip[1] = 10
          \/ ip[1] = 172 /\ ip[2] \in 16..31
          \/ ip[1] = 192 /\ ip[2] = 168
          \/ ip[1] = 127
          \/ ip[1] = 169 /\ ip[2] = 254
    \/ /\ Len(ip) = 8
       /\ \A n \in 1..8 : ip[n] \in 0..65535
       /\ \/ ip = << 0, 0, 0, 0, 0, 0, 0, 1 >>
          \/ ip[1] \in 65152..65215
          \/ ip[1] \in 64512..65023

\* call i returned the private-network GeoInfo at once: no error, no backend
\* call, no read and no write of the cache
PrivateAnswer(i) ==
    /\ CallDone(i)
    /\ calls[i].info = PrivateInfo(calls[i].ip)
    /\ calls[i].info.Country = "Private Network"
    /\ calls[i].err = Nil
    /\ calls[i].backend = 0
    /\ ~calls[i].read
    /\ ~calls[i].wrote
    /\ calls[i].ended = calls[i].began

\* C14 (as stated): Lookup of an IP in a private, loopback or link-local
\* range returns Country = "Private Network" with no error, makes no backend
\* call and neither reads nor writes the cache, whatever the cache holds and
\* whatever the TTL is.
C14_Original ==
    \A i \in DOMAIN calls : InPrivateRange(calls[i].ip) => PrivateAnswer(i)

\* C14 (amended): with GeoIP enabled, Lookup of an IP in a private, loopback
\* or link-local range returns Country = "Private Network" with no error,
\* makes no backend call and neither reads nor writes the cache, whatever
\* the cache holds and whatever the TTL is.
C14_Amended ==
    geo.config.Enabled =>
        \A i \in DOMAIN calls : InPrivateRange(calls[i].ip) => PrivateAnswer(i)

\* 192.168.1.1 was looked up while the cache held an entry, under the short
\* TTL
C14_Witness ==
    /\ geo.config.Enabled
    /\ geo.config.TTL = 1
    /\ cache # NoCache
    /\ \E i \in DOMAIN calls :
          /\ calls[i].ip = << 192, 168, 1, 1 >>
          /\ calls[i].prior # { }
          /\ PrivateAnswer(i)

\* the manager is enabled, caches, and its configured service is registered
CachingManager ==
    /\ geo.config.Enabled
    /\ geo.config.Cache
    /\ geo.config.Service \in geo.services

\* call j is a second call for the IP of call i: it began when i had
\* returned
SecondCall(i, j) ==
    /\ i \in calls[j].prior
    /\ calls[j].ip = calls[i].ip
    /\ calls[i].ip \in PublicIPs

\* C15 (as stated): when Lookup is called twice for the same public IP
\* within the TTL window, the second call makes no backend invocation and
\* returns a GeoInfo identical to the one the first call returned. Stated
\* here for an enabled, caching manager whose service is registered, so
\* that a violation owes nothing to the configuration.
C15_Original ==
    CachingManager =>
        \A i, j \in DOMAIN calls :
            (SecondCall(i, j) /\ CallDone(j)
               /\ calls[j].began - calls[i].began <= geo.config.TTL) =>
                  /\ calls[j].backend = 0
                  /\ calls[j].info = calls[i].info

\* the cache entry call i stored when it returned
StoredBy(i) == [ info |-> calls[i].info, timestamp |-> calls[i].ended ]

\* C15 (amended): when caching is enabled and a Lookup of a public IP has
\* stored the GeoInfo the backend gave it, a second Lookup of that IP which
\* begins no more than TTL seconds after the first returned, and finds the
\* entry of the first still in the cache (it was neither cleared nor
\* replaced), invokes no backend, has returned at once, and its GeoInfo is
\* identical to the one the first call returned.
C15_Amended ==
    \A i, j \in DOMAIN calls :
        (SecondCall(i, j) /\ calls[i].wrote
           /\ calls[j].saw = StoredBy(i)
           /\ calls[j].began - calls[i].ended <= geo.config.TTL) =>
              /\ CallDone(j)
              /\ calls[j].backend = 0
              /\ calls[j].info = calls[i].info
              /\ calls[j].err = Nil

\* a second call hit the entry of the first exactly TTL seconds after it
\* was stored
C15_Witness ==
    \E i, j \in DOMAIN calls :
        /\ SecondCall(i, j)
        /\ calls[i].wrote
        /\ calls[j].saw = StoredBy(i)
        /\ calls[j].began - calls[i].ended = geo.config.TTL
        /\ calls[j].info = calls[i].info
        /\ calls[j].info.Country = "DE"

\* call i returned the InvalidIP failure at once: an error and no GeoInfo,
\* no backend call, the cache neither read nor written
InvalidIPFailure(i) ==
    /\ CallDone(i)
    /\ calls[i].err = [ kind |-> "InvalidIP", ip |-> calls[i].ip ]
    /\ calls[i].info = Nil
    /\ calls[i].backend = 0
    /\ ~calls[i].read
    /\ ~calls[i].wrote
    /\ calls[i].ended = calls[i].began

\* C16 (as stated): Lookup of a syntactically invalid IP string returns the
\* InvalidIP failure (an error value, no GeoInfo), makes no backend call and
\* leaves the cache unchanged.
C16_Original ==
    \A i \in DOMAIN calls : calls[i].ip \in InvalidIPs => InvalidIPFailure(i)

\* C16 (amended): with GeoIP enabled, Lookup of a syntactically invalid IP
\* string returns the InvalidIP failure (an error value, no GeoInfo), makes
\* no backend call and leaves the cache unchanged.
C16_Amended ==
    geo.config.Enabled =>
        \A i \in DOMAIN calls :
            calls[i].ip \in InvalidIPs => InvalidIPFailure(i)

\* a dotted quad with a group above 255 was looked up while the cache held
\* an entry
C16_Witness ==
    /\ geo.config.Enabled
    /\ cache # NoCache
    /\ \E i \in DOMAIN calls :
          /\ calls[i].ip = << 256, 1, 1, 1 >>
          /\ calls[i].prior # { }
          /\ InvalidIPFailure(i)

\* the backend was asked by call i and failed
BackendFailed(i) ==
    /\ CallDone(i)
    /\ calls[i].backend >= 1
    /\ ~calls[i].answer.ok

\* C17: when the backend service fails for a public IP, Lookup returns a
\* GeoInfo in which only IP is populated, together with no error; and no
\* call that asked the backend returns an error.
C17_BackendFailure ==
    \A i \in DOMAIN calls :
        /\ BackendFailed(i) =>
              /\ calls[i].ip \in PublicIPs
              /\ calls[i].info = IPOnly(calls[i].ip)
              /\ calls[i].err = Nil
              /\ ~calls[i].wrote
        /\ (CallDone(i) /\ calls[i].backend >= 1) => calls[i].err = Nil

\* the backend failed for a call that began after another call for the
\* same IP had been answered by the backend
C17_Witness ==
    \E i, j \in DOMAIN calls :
        /\ BackendFailed(j)
        /\ SecondCall(i, j)
        /\ calls[i].info.Country = "US"
        /\ calls[j].info.Country = ""

\* C18: GeoIP failure is never fatal: with GeoIP enabled, for every
\* syntactically valid IP, every configured service name and every backend
\* behaviour, Lookup returns a GeoInfo and no error; InvalidIP is the only
\* error Lookup can return.
C18_NeverFatal ==
    geo.config.Enabled =>
        \A i \in DOMAIN calls :
            CallDone(i) =>
               /\ calls[i].ip \notin InvalidIPs =>
                     calls[i].info # Nil /\ calls[i].err = Nil
               /\ calls[i].err # Nil => calls[i].err.kind = "InvalidIP"

\* C19: when GeoIP is disabled, Lookup returns at once, for every input
\* string, a GeoInfo with only IP populated and no error, without
\* validating the IP (an invalid one gets the same answer), calling the
\* backend or touching the cache, which stays empty.
C19_Disabled ==
    ~geo.config.Enabled =>
        /\ cache = NoCache
        /\ \A i \in DOMAIN calls :
              /\ CallDone(i)
              /\ calls[i].info = IPOnly(calls[i].ip)
              /\ calls[i].err = Nil
              /\ calls[i].backend = 0
              /\ ~calls[i].read
              /\ ~calls[i].wrote
              /\ calls[i].ended = calls[i].began

\* a disabled manager was asked for an invalid and for a private IP
C19_Witness ==
    /\ ~geo.config.Enabled
    /\ \E i, j \in DOMAIN calls :
          /\ calls[i].ip \in InvalidIPs
          /\ calls[j].ip \in PrivateIPs
          /\ calls[i].info = IPOnly(calls[i].ip)
          /\ calls[j].info.Country = ""

\* -------------------------------------------------------- BatchLookup
\* the IP strings the lists handed to BatchLookup are made of
BatchIPs == { << 8, 8, 8, 8 >>, << 192, 168, 1, 1 >>, << 8, 8, 8 >> }

RECURSIVE Lists(_)
Lists(n) ==
    IF n = 0 THEN { << >> }
    ELSE Lists(n - 1)
           \cup { Append(l, ip) : l \in { x \in Lists(n - 1) : Len(x) = n - 1 },
                                  ip \in BatchIPs }

\* make(chan struct{}, 5)
SemaphoreSize == 5

NoResults == [ k \in { } |-> Nil ]

\* variant: a lookup that failed leaves no entry
StoreResult_DropFailed(results, a) ==
    IF a.err # Nil THEN results
    ELSE [ k \in DOMAIN results \cup { a.ip } |->
             IF k = a.ip THEN a.info ELSE results[k] ]

\* results[ip] = &Info{IP: ip} after an error, results[ip] = info otherwise
StoreResult(results, a) ==
    [ k \in DOMAIN results \cup { a.ip } |->
        IF k = a.ip THEN (IF a.err # Nil THEN IPOnly(a.ip) ELSE a.info)
        ELSE results[k] ]

\* the goroutines of the BatchLookup call
Goroutines == IF batch = NoBatch THEN { } ELSE DOMAIN batch.go

\* BatchLookup starts one goroutine per element of ips
CallBatchLookup(ips) ==
    /\ geo # NoManager
    /\ batch = NoBatch
    /\ batch' = [ kind |-> "batch", ips |-> ips, results |-> NoResults,
                  semaphore |-> 0, returned |-> FALSE,
                  go |-> [ g \in 1..Len(ips) |->
                             [ ip |-> ips[g], pc |-> "wait", lookup |-> Nil ] ] ]
    /\ UNCHANGED << geo, cache, now, calls, nonGeoVars >>

\* variant: the send on the semaphore channel never blocks
GoAcquire_Unbounded(g) ==
    /\ batch.go[g].pc = "wait"
    /\ batch' = [ batch EXCEPT !.semaphore = @ + 1, !.go[g].pc = "acquired" ]
    /\ UNCHANGED << geo, cache, now, calls, nonGeoVars >>

\* semaphore <- struct{}{}
GoAcquire(g) ==
    /\ batch.go[g].pc = "wait"
    /\ batch.semaphore < SemaphoreSize
    /\ batch' = [ batch EXCEPT !.semaphore = @ + 1, !.go[g].pc = "acquired" ]
    /\ UNCHANGED << geo, cache, now, calls, nonGeoVars >>

\* m.Lookup(ip) up to its return or to the call of the backend
GoLookup(g) ==
    /\ batch.go[g].pc = "acquired"
    /\ LET a == LookupStart(geo, cache, now, batch.go[g].ip)
       IN  batch' = [ batch EXCEPT
                        !.go[g].lookup = a,
                        !.go[g].pc = IF a.pc = "done" THEN "looked"
                                                      ELSE "backend" ]
    /\ UNCHANGED << geo, cache, now, calls, nonGeoVars >>

\* the backend answers the lookup of goroutine g
GoService(g) ==
    /\ batch.go[g].pc = "backend"
    /\ \E answer \in ServiceLookup(batch.go[g].ip) :
          /\ batch' = [ batch EXCEPT
                          !.go[g].lookup = LookupFinish(geo, @, answer, now),
                          !.go[g].pc = "looked" ]
          /\ cache' = CacheAfter(geo, cache, now, batch.go[g].lookup, answer)
    /\ UNCHANGED << geo, now, calls, nonGeoVars >>

\* mu.Lock(); results[ip] = ...; mu.Unlock()
GoStore(g) ==
    /\ batch.go[g].pc = "looked"
    /\ batch' = [ batch EXCEPT
                    !.results = StoreResult(@, batch.go[g].lookup),
                    !.go[g].pc = "stored" ]
    /\ UNCHANGED << geo, cache, now, calls, nonGeoVars >>

\* variant: the slot is not given back
GoRelease_Leak(g) ==
    /\ batch.go[g].pc = "stored"
    /\ batch' = [ batch EXCEPT !.go[g].pc = "done" ]
    /\ UNCHANGED << geo, cache, now, calls, nonGeoVars >>

\* the deferred <-semaphore, then the deferred wg.Done()
GoRelease(g) ==
    /\ batch.go[g].pc = "stored"
    /\ batch' = [ batch EXCEPT !.semaphore = @ - 1, !.go[g].pc = "done" ]
    /\ UNCHANGED << geo, cache, now, calls, nonGeoVars >>

\* wg.Wait(); return results
ReturnBatchLookup ==
    /\ batch # NoBatch
    /\ ~batch.returned
    /\ \A g \in DOMAIN batch.go : batch.go[g].pc = "done"
    /\ batch' = [ batch EXCEPT !.returned = TRUE ]
    /\ UNCHANGED << geo, cache, now, calls, nonGeoVars >>

InitBatch ==
    /\ EngineUnused
    /\ AdminUnused
    /\ geo \in { NewManager(cfg) : cfg \in GeoIPConfig }
    /\ cache = NoCache
    /\ now = 0
    /\ calls = << >>
    /\ batch = NoBatch

NextBatch ==
    \/ \E ips \in Lists(MaxBatch) : CallBatchLookup(ips)
    \/ \E g \in Goroutines : GoAcquire(g)
    \/ \E g \in Goroutines : GoLookup(g)
    \/ \E g \in Goroutines : GoService(g)
    \/ \E g \in Goroutines : GoStore(g)
    \/ \E g \in Goroutines : GoRelease(g)
    \/ ReturnBatchLookup
    \/ Tick

SpecBatch == InitBatch /\ [][NextBatch]_vars

\* the IPs of the list
InputIPs == { batch.ips[k] : k \in DOMAIN batch.ips }

BatchReturned == batch # NoBatch /\ batch.returned

\* every goroutine whose Lookup returned an error left an IP-only GeoInfo
FailedAreIPOnly ==
    \A g \in DOMAIN batch.go :
        batch.go[g].lookup.err # Nil =>
           batch.results[batch.go[g].ip] = IPOnly(batch.go[g].ip)

\* C20 (as stated): BatchLookup(ips) returns a mapping that has an entry for
\* every input IP and whose size equals the size of the input; an input
\* whose Lookup fails is mapped to a GeoInfo with only IP populated.
C20_Original ==
    BatchReturned =>
        /\ InputIPs \subseteq DOMAIN batch.results
        /\ Cardinality(DOMAIN batch.results) = Len(batch.ips)
        /\ FailedAreIPOnly

\* C20 (amended): BatchLookup(ips) returns a mapping whose keys are exactly
\* the input IPs, so that its size equals the number of distinct IPs of the
\* input; an input whose Lookup fails is mapped to a GeoInfo with only IP
\* populated, and every entry carries the IP it is filed under.
C20_Amended ==
    BatchReturned =>
        /\ DOMAIN batch.results = InputIPs
        /\ Cardinality(DOMAIN batch.results) = Cardinality(InputIPs)
        /\ FailedAreIPOnly
        /\ \A ip \in DOMAIN batch.results : batch.results[ip].IP = ip

\* a list that names one IP twice and an invalid one has been looked up by
\* an enabled manager
C20_Witness ==
    /\ BatchReturned
    /\ geo.config.Enabled
    /\ Cardinality(InputIPs) < Len(batch.ips)
    /\ \E g \in DOMAIN batch.go :
          /\ batch.go[g].lookup.err # Nil
          /\ batch.results[batch.go[g].ip].Country = ""

----------------------------------------------------------------------------
\* BatchLookup with more goroutines than the semaphore has slots

\* lists longer than the semaphore: one address of either kind followed by
\* private addresses, which Lookup answers without a backend
TaskLists ==
    { << ip >> \o [ k \in 1..(n - 1) |-> << 192, 168, 1, 1 >> ] :
        ip \in { << 8, 8, 8, 8 >>, << 192, 168, 1, 1 >> },
        n \in (SemaphoreSize + 1)..MaxTasks }

InitSem ==
    /\ EngineUnused
    /\ AdminUnused
    /\ geo \in { NewManager(cfg) :
                   cfg \in { c \in GeoIPConfig :
                               /\ c.Enabled
                               /\ c.Service = "ipapi" /\ c.APIKey = ""
                               /\ c.TTL = DefaultTTL } }
    /\ cache = NoCache
    /\ now = 0
    /\ calls = << >>
    /\ batch = NoBatch

NextSem ==
    \/ \E ips \in TaskLists : CallBatchLookup(ips)
    \/ \E g \in Goroutines : GoAcquire(g)
    \/ \E g \in Goroutines : GoLookup(g)
    \/ \E g \in Goroutines : GoService(g)
    \/ \E g \in Goroutines : GoStore(g)
    \/ \E g \in Goroutines : GoRelease(g)
    \/ ReturnBatchLookup

SpecSem == InitSem /\ [][NextSem]_vars

\* the goroutines between the call of Lookup and its return
InFlight == { g \in Goroutines : batch.go[g].pc \in { "acquired", "backend" } }

\* the goroutines that took a slot and have not given it back
Holders ==
    { g \in Goroutines :
        batch.go[g].pc \in { "acquired", "backend", "looked", "stored" } }

\* C21: during BatchLookup at most 5 Lookup calls are in flight at every
\* moment, whatever the number of input IPs; a goroutine starts its Lookup
\* only while it holds a semaphore slot, and it gives the slot back only
\* after its result is in the results map.
C21_Semaphore ==
    batch # NoBatch =>
        /\ Cardinality(InFlight) <= SemaphoreSize
        /\ InFlight \subseteq Holders
        /\ batch.semaphore = Cardinality(Holders)
        /\ batch.semaphore <= SemaphoreSize
        /\ \A g \in Goroutines :
              /\ batch.go[g].lookup # Nil => batch.go[g].pc # "wait"
              /\ batch.go[g].pc = "done" =>
                    batch.go[g].ip \in DOMAIN batch.results

\* five Lookup calls are in flight while a sixth goroutine waits for a slot
C21_Witness ==
    /\ batch # NoBatch
    /\ Len(batch.ips) > SemaphoreSize
    /\ Cardinality(InFlight) = SemaphoreSize
    /\ \E g \in Goroutines : batch.go[g].pc = "wait"

----------------------------------------------------------------------------
\* The notification path of main (cmd/fail2ban-notify/main.go), from the
\* GeoIP lookup to the return of ExecuteAll

\* the flags of one notification: -ip, -jail, -action, -failures (an empty
\* ip or jail and an action other than ban/unban end main before this path)
Events ==
    [ ip : { << 8, 8, 8, 8 >>, << 192, 168, 1, 1 >>, << 8, 8, 8 >> },
      jail : Jails, action : Actions, failures : { 0, 3 } ]

\* the connectors of the loaded Config
MainConnectors ==
    UNION { { c \in Configs("alternate", n) :
                \A i \in 1..n : c[i].Type = "script" /\ c[i].RetryCount = 0 } :
            n \in 0..MaxConn }

\* variant: main gives up when Lookup returns an error
AfterLookup_Fatal(m, a) ==
    IF a.err # Nil THEN [ m EXCEPT !.pc = "fatal", !.lookup = a ]
    ELSE [ m EXCEPT !.pc = "notify", !.lookup = a, !.geoInfo = a.info ]

\* geoInfo, err = geoManager.Lookup(*ip); an error leaves &GeoIPInfo{IP: *ip}
AfterLookup(m, a) ==
    [ m EXCEPT !.pc = "notify", !.lookup = a,
               !.geoInfo = IF a.err # Nil THEN IPOnly(m.event.ip) ELSE a.info ]

\* types.NotificationData{...} as main fills it
MainData(m) ==
    [ IP |-> m.event.ip, Jail |-> m.event.jail, Action |-> m.event.action,
      Time |-> now, Country |-> m.geoInfo.Country,
      Region |-> m.geoInfo.Region, City |-> m.geoInfo.City,
      ISP |-> m.geoInfo.ISP, Hostname |-> "",
      Failures |-> m.event.failures, Timezone |-> m.geoInfo.Timezone,
      Latitude |-> m.geoInfo.Lat, Longitude |-> m.geoInfo.Lon ]

\* if cfg.GeoIP.Enabled { geoManager.Lookup(*ip) } else { IP only }, up to
\* the return of Lookup or to its call of the backend
MainLookup ==
    /\ main.pc = "geoip"
    /\ IF ~geo.config.Enabled
       THEN main' = [ main EXCEPT !.pc = "notify",
                                  !.geoInfo = IPOnly(main.event.ip) ]
       ELSE LET a == LookupStart(geo, cache, now, main.event.ip)
            IN  IF a.pc = "backend"
                THEN main' = [ main EXCEPT !.pc = "backend", !.lookup = a ]
                ELSE main' = AfterLookup(main, a)
    /\ UNCHANGED << geo, cache, now, calls, batch, nonMainVars >>

\* the backend answers (its client has a timeout) and Lookup returns
MainService ==
    /\ main.pc = "backend"
    /\ \E answer \in ServiceLookup(main.event.ip) :
          /\ main' = AfterLookup(main,
                                 LookupFinish(geo, main.lookup, answer, now))
          /\ cache' = CacheAfter(geo, cache, now, main.lookup, answer)
    /\ UNCHANGED << geo, now, calls, batch, nonMainVars >>

\* the notification data is built; without an enabled connector main warns
\* and returns, otherwise it calls connectorManager.ExecuteAll(data)
MainNotify ==
    /\ main.pc = "notify"
    /\ IF Len(GetEnabledConnectors(Connectors)) = 0
       THEN main' = [ main EXCEPT !.pc = "returned", !.data = MainData(main) ]
       ELSE main' = [ main EXCEPT !.pc = "executeAll",
                                  !.data = MainData(main),
                                  !.passed = MainData(main) ]
    /\ UNCHANGED << geoVars, nonMainVars >>

\* ExecuteAll returns nil or its aggregated error; main logs it and ends
MainExecuteAll ==
    /\ main.pc = "executeAll"
    /\ \E err \in { Nil, [ kind |-> "ExecuteAllFailed" ] } :
          main' = [ main EXCEPT !.pc = "done", !.err = err ]
    /\ UNCHANGED << geoVars, nonMainVars >>

InitMain ==
    /\ Connectors \in MainConnectors
    /\ mgr = "idle" /\ op = "none" /\ arg = << >> /\ task = << >>
    /\ errChan = << >> /\ result = Pending
    /\ input = NoInput /\ child = NoChild
    /\ geo \in { NewManager(cfg) : cfg \in GeoIPConfig }
    /\ cache = NoCache /\ now = 0 /\ calls = << >> /\ batch = NoBatch
    /\ config = NoConfig /\ fsys = NoFiles /\ lastCall = NoCall
    /\ main \in [ kind : { "main" }, pc : { "geoip" }, event : Events,
                   lookup : { Nil }, geoInfo : { Nil }, data : { Nil },
                   passed : { Nil }, err : { Nil } ]

NextMain == MainLookup \/ MainService \/ MainNotify \/ MainExecuteAll

SpecMain == InitMain /\ [][NextMain]_vars

\* main runs on: the backend answers within its timeout and ExecuteAll
\* returns
FairSpecMain == SpecMain /\ WF_vars(NextMain)

\* ExecuteAll has been called
ExecuteAllCalled == main.pc \in { "executeAll", "done" }

\* C22: in the notification path of main a GeoIP failure never blocks
\* delivery: whatever Lookup returns (a GeoInfo, an IP-only GeoInfo or an
\* error), ExecuteAll is eventually called, with the IP, Jail, Action and
\* Failures of the event, whenever at least one connector is enabled.
C22_DeliveryNotBlocked ==
    /\ [](ExecuteAllCalled =>
            /\ main.passed.IP = main.event.ip
            /\ main.passed.Jail = main.event.jail
            /\ main.passed.Action = main.event.action
            /\ main.passed.Failures = main.event.failures)
    /\ (Len(GetEnabledConnectors(Connectors)) > 0) ~> ExecuteAllCalled

\* Lookup returned an error and ExecuteAll was called all the same
C22_Witness ==
    /\ main # NoMain
    /\ ExecuteAllCalled
    /\ main.lookup # Nil
    /\ main.lookup.err # Nil
    /\ main.passed.Country = ""

----------------------------------------------------------------------------
\* Manager.ValidateConnector and Manager.GetConnectorStatus
\* (internal/connectors/manager.go)

\* what os.Stat can say of a path: no such file, another error (permission
\* denied on a directory of the path), a file without or with an execute bit
FileStates == { "absent", "denied", "plain", "executable" }

ScriptPath == << "/c/notify.sh" >>

\* the connectors of the status Configs: scripts with and without a path,
\* http connectors with and without url and path, and an unknown type
StatusShapes ==
    { [ Type |-> "script", Path |-> ScriptPath, Settings |-> NoSettings ],
      [ Type |-> "executable", Path |-> << >>, Settings |-> NoSettings ],
      [ Type |-> "http", Path |-> << >>, Settings |-> URLSettings ],
      [ Type |-> "http", Path |-> ScriptPath, Settings |-> URLSettings ],
      [ Type |-> "http", Path |-> ScriptPath, Settings |-> NoSettings ],
      [ Type |-> "ftp", Path |-> ScriptPath, Settings |-> URLSettings ] }

StatusConnectors ==
    { [ Name |-> n, Type |-> sh.Type, Enabled |-> en, Path |-> sh.Path,
        Settings |-> sh.Settings ] :
        n \in Names, en \in BOOLEAN, sh \in StatusShapes }

\* fmt.Errorf(...): an error with its text
Errorf(text) == [ kind |-> "error", text |-> text ]

\* os.Stat(path) on the files of the model; the empty path names no file
Stat(files, path) == IF path \in DOMAIN files THEN files[path] ELSE "absent"

\* variant: the file of an http connector is checked as well
ValidateConnector_PathChecked(files, connector) ==
    IF connector.Type \in { "script", "executable", "http" }
       /\ Stat(files, connector.Path) = "absent"
    THEN Errorf(<< "connector script not found: " >> \o connector.Path)
    ELSE IF connector.Type = "http" /\ "url" \notin DOMAIN connector.Settings
    THEN Errorf(<< "HTTP connector must have 'url' setting" >>)
    ELSE Nil

\* the error of Manager.ValidateConnector, as its text, or Nil
ValidateConnector(files, connector) ==
    IF connector.Type \in { "script", "executable" }
    THEN IF Stat(files, connector.Path) = "absent"
         THEN Errorf(<< "connector script not found: " >> \o connector.Path)
         ELSE IF Stat(files, connector.Path) = "denied"
         THEN Errorf(<< "failed to stat connector file: ", "permission denied" >>)
         ELSE IF Stat(files, connector.Path) = "plain"
         THEN Errorf(<< "connector file is not executable: " >>
                     \o connector.Path)
         ELSE Nil
    ELSE IF connector.Type = "http"
    THEN IF "url" \notin DOMAIN connector.Settings
         THEN Errorf(<< "HTTP connector must have 'url' setting" >>)
         ELSE Nil
    ELSE Errorf(<< "unknown connector type: ", connector.Type >>)

\* the ConnectorStatus of one connector
ConnStatus(files, connector) ==
    LET err == ValidateConnector(files, connector)
    IN  [ Name |-> connector.Name, Type |-> connector.Type,
          Enabled |-> connector.Enabled, Path |-> connector.Path,
          Status |-> IF err # Nil THEN "invalid"
                     ELSE IF connector.Enabled THEN "ready" ELSE "disabled",
          Error |-> IF err # Nil THEN err.text ELSE << >> ]

\* status[connector.Name] = connStatus for each connector in turn: a later
\* connector overwrites the entry of an earlier one of the same name
GetConnectorStatus(files, connectors) ==
    LET names == { connectors[i].Name : i \in DOMAIN connectors }
        lastOf(n) == CHOOSE i \in DOMAIN connectors :
                        /\ connectors[i].Name = n
                        /\ \A j \in DOMAIN connectors :
                              connectors[j].Name = n => j <= i
    IN  [ n \in names |-> ConnStatus(files, connectors[lastOf(n)]) ]

CallGetConnectorStatus ==
    /\ lastCall' = [ op |-> "GetConnectorStatus",
                     ret |-> GetConnectorStatus(fsys.files,
                                                config.Connectors) ]
    /\ UNCHANGED << config, fsys, main, engineVars, scriptVars, geoVars >>

CallValidateConnector(connector) ==
    /\ lastCall' = [ op |-> "ValidateConnector", connector |-> connector,
                     ret |-> ValidateConnector(fsys.files, connector) ]
    /\ UNCHANGED << config, fsys, main, engineVars, scriptVars, geoVars >>

RECURSIVE StatusConfigs(_)
StatusConfigs(n) ==
    IF n = 0 THEN { << >> }
    ELSE StatusConfigs(n - 1)
           \cup { Append(c, x) :
                    c \in { y \in StatusConfigs(n - 1) : Len(y) = n - 1 },
                    x \in StatusConnectors }

InitStatus ==
    /\ Connectors = << >>
    /\ mgr = "idle" /\ op = "none" /\ arg = << >> /\ task = << >>
    /\ errChan = << >> /\ result = Pending
    /\ input = NoInput /\ child = NoChild
    /\ GeoUnused
    /\ main = NoMain
    /\ config \in [ Connectors : StatusConfigs(MaxStatusConn) ]
    /\ fsys \in [ files : [ { ScriptPath } -> FileStates ] ]
    /\ lastCall = NoCall

NextStatus ==
    \/ CallGetConnectorStatus
    \/ \E c \in { x \in StatusConnectors : x.Enabled /\ x.Name = << "a" >> } :
          CallValidateConnector(c)

SpecStatus == InitStatus /\ [][NextStatus]_vars

\* the connector passes ValidateConnector
Valid(connector) == ValidateConnector(fsys.files, connector) = Nil

\* C23: GetConnectorStatus returns an entry for every configured connector,
\* and the status of a connector's entry is ready iff the connector passes
\* ValidateConnector and is enabled, disabled iff it passes and is not
\* enabled, and invalid, with a non-empty error string, iff it fails
\* validation, whatever its Enabled flag.
C23_Status ==
    lastCall.op = "GetConnectorStatus" =>
        \A i \in DOMAIN config.Connectors :
            LET c == config.Connectors[i]
            IN  /\ c.Name \in DOMAIN lastCall.ret
                /\ LET e == lastCall.ret[c.Name]
                   IN  /\ e.Status = "ready" <=> (Valid(c) /\ c.Enabled)
                       /\ e.Status = "disabled" <=> (Valid(c) /\ ~c.Enabled)
                       /\ e.Status = "invalid" <=> ~Valid(c)
                       /\ e.Status = "invalid" => Len(e.Error) > 0

\* C24: Manager.ValidateConnector on an http connector fails with the
\* missing-setting error iff its Settings lack the key url; with url
\* present it passes, whatever its Path and whatever file is there.
C24_HTTPValidation ==
    (lastCall.op = "ValidateConnector" /\ lastCall.connector.Type = "http") =>
        /\ lastCall.ret = Errorf(<< "HTTP connector must have 'url' setting" >>)
              <=> "url" \notin DOMAIN lastCall.connector.Settings
        /\ "url" \in DOMAIN lastCall.connector.Settings => lastCall.ret = Nil

\* an http connector with url and with a Path that names no file passed
C24_Witness ==
    /\ lastCall.op = "ValidateConnector"
    /\ lastCall.connector.Type = "http"
    /\ "url" \in DOMAIN lastCall.connector.Settings
    /\ lastCall.connector.Path = ScriptPath
    /\ Stat(fsys.files, ScriptPath) = "absent"
    /\ lastCall.ret = Nil

----------------------------------------------------------------------------
\* Manager.DiscoverConnectors (internal/connectors/manager.go)

\* file names, in the order os.ReadDir lists them (sorted by name)
FileNames ==
    << << "a", ".", "s", "h", ".", "b", "a", "k" >>,
       << "b", ".", "t", "x", "t" >>,
       << "f", "o", "o", ".", "s", "h" >>,
       << "j", ".", "j", "s" >>,
       << "p", ".", "p", "l" >>,
       << "r", ".", "r", "b" >>,
       << "r", "u", "n" >>,
       << "s", "h" >>,
       << "x", ".", "b", "a", "s", "h" >>,
       << "x", ".", "p", "y" >> >>

\* what a directory entry can be: a regular file with its permission bits
\* (0644, 0755, 0100, 0010) that is still there, or not, when entry.Info()
\* is called; a directory; a symbolic link (lstat: mode 0777)
Entries ==
    [ kind : { "file" }, mode : { 420, 493, 64, 8 }, gone : BOOLEAN ]
      \cup [ kind : { "dir" }, mode : { 493 }, gone : { FALSE } ]
      \cup [ kind : { "symlink" }, mode : { 511 }, gone : { FALSE } ]

\* the connector directory: missing, not readable, or its entries by name
Directories ==
    { [ kind |-> "absent" ], [ kind |-> "unreadable" ] }
      \cup { [ kind |-> "dir", entries |-> e ] :
               e \in UNION { [ names -> Entries ] :
                               names \in { n \in SUBSET { FileNames[i] :
                                                   i \in DOMAIN FileNames } :
                                             Cardinality(n) <= MaxEntries } } }

\* strings.HasSuffix
HasSuffix(str, suffix) ==
    /\ Len(str) >= Len(suffix)
    /\ SubSeq(str, Len(str) - Len(suffix) + 1, Len(str)) = suffix

\* filepath.Ext: the suffix that begins at the last dot, or nothing
Ext(name) ==
    LET dots == { i \in DOMAIN name : name[i] = "." }
    IN  IF dots = { } THEN << >>
        ELSE SubSeq(name, CHOOSE i \in dots : \A j \in dots : j <= i,
                    Len(name))

\* info.Mode()&0111 # 0: one of the three execute bits is set
ModeExec(mode) ==
    \/ mode % 2 = 1
    \/ (mode \div 8) % 2 = 1
    \/ (mode \div 64) % 2 = 1

\* variant: only .sh files are scripts
ConnectorType_ShOnly(name) ==
    IF HasSuffix(name, << ".", "s", "h" >>) THEN "script" ELSE "executable"

ConnectorType(name) ==
    IF \/ HasSuffix(name, << ".", "s", "h" >>)
       \/ HasSuffix(name, << ".", "b", "a", "s", "h" >>)
       \/ HasSuffix(name, << ".", "p", "y" >>)
       \/ HasSuffix(name, << ".", "j", "s" >>)
       \/ HasSuffix(name, << ".", "r", "b" >>)
       \/ HasSuffix(name, << ".", "p", "l" >>)
    THEN "script" ELSE "executable"

DiscoveredTimeout == 30
DiscoveredRetryCount == 2

\* the ConnectorConfig built for the file called name
Discovered(connectorPath, name) ==
    [ Name |-> SubSeq(name, 1, Len(name) - Len(Ext(name))),
      Type |-> ConnectorType(name), Enabled |-> FALSE,
      Path |-> connectorPath \o << "/" >> \o name,
      Settings |-> NoSettings, Timeout |-> DiscoveredTimeout,
      RetryCount |-> DiscoveredRetryCount,
      RetryDelay |-> DefaultRetryDelay ]

\* what DiscoverConnectors returns: the list and the error
DiscoverConnectors(connectorPath, d) ==
    IF d.kind = "absent" THEN [ discovered |-> << >>, err |-> Nil ]
    ELSE IF d.kind = "unreadable"
    THEN [ discovered |-> Nil,
           err |-> Errorf(<< "failed to read connector directory: ",
                             "permission denied" >>) ]
    ELSE LET keep(name) ==
                 /\ name \in DOMAIN d.entries
                 /\ d.entries[name].kind # "dir"
                 /\ ~d.entries[name].gone
                 /\ ModeExec(d.entries[name].mode)
             listed == SelectSeq(FileNames, keep)
         IN  [ discovered |-> [ i \in DOMAIN listed |->
                                  Discovered(connectorPath, listed[i]) ],
               err |-> Nil ]

CallDiscoverConnectors ==
    /\ lastCall' = [ op |-> "DiscoverConnectors", before |-> config,
                     ret |-> DiscoverConnectors(config.ConnectorPath,
                                                fsys.dir) ]
    /\ UNCHANGED << config, fsys, main, engineVars, scriptVars, geoVars >>

InitDiscover ==
    /\ Connectors = << >>
    /\ mgr = "idle" /\ op = "none" /\ arg = << >> /\ task = << >>
    /\ errChan = << >> /\ result = Pending
    /\ input = NoInput /\ child = NoChild
    /\ GeoUnused
    /\ main = NoMain
    /\ config \in [ ConnectorPath : { << "/c" >> },
                     Connectors : { c \in StatusConfigs(1) :
                                      \A i \in DOMAIN c :
                                         /\ c[i].Name = << "a" >>
                                         /\ c[i].Type = "script" } ]
    /\ fsys \in [ dir : Directories ]
    /\ lastCall = NoCall

NextDiscover == CallDiscoverConnectors

SpecDiscover == InitDiscover /\ [][NextDiscover]_vars

\* the names whose files are scripts by their ending
ScriptNames ==
    { << "f", "o", "o", ".", "s", "h" >>, << "j", ".", "j", "s" >>,
      << "p", ".", "p", "l" >>, << "r", ".", "r", "b" >>,
      << "x", ".", "b", "a", "s", "h" >>, << "x", ".", "p", "y" >> }

\* the modes with at least one execute permission bit
ExecModes == { 493, 64, 8, 511 }

\* the proposals made for the file called name
ProposalsFor(name) ==
    { i \in DOMAIN lastCall.ret.discovered :
        lastCall.ret.discovered[i].Path = << "/c", "/" >> \o name }

DiscoverReturned ==
    lastCall.op = "DiscoverConnectors" /\ fsys.dir.kind = "dir"

\* C25: DiscoverConnectors returns exactly one proposed connector for each
\* regular file of the connector directory that has at least one execute
\* permission bit, and none for a directory or a file without an execute
\* bit; every proposal has Enabled = false, and Type = script iff the file
\* name ends in .sh, .bash, .py, .js, .rb or .pl, otherwise Type =
\* executable. The live Config is not modified.
C25_Discover ==
    DiscoverReturned =>
        /\ lastCall.ret.err = Nil
        /\ \A name \in DOMAIN fsys.dir.entries :
              LET e == fsys.dir.entries[name]
              IN  /\ (e.kind = "file" /\ ~e.gone /\ e.mode \in ExecModes)
                        => Cardinality(ProposalsFor(name)) = 1
                  /\ (e.kind = "dir" \/ (e.kind = "file"
                                           /\ e.mode \notin ExecModes))
                        => ProposalsFor(name) = { }
                  /\ \A i \in ProposalsFor(name) :
                        LET c == lastCall.ret.discovered[i]
                        IN  /\ ~c.Enabled
                            /\ c.Type = IF name \in ScriptNames
                                         THEN "script" ELSE "executable"
        /\ \A i \in DOMAIN lastCall.ret.discovered :
              \E name \in DOMAIN fsys.dir.entries : i \in ProposalsFor(name)
        /\ config = lastCall.before

\* a directory with an executable .py file and a file without execute bit
\* was scanned: one proposal, of type script
C25_Witness ==
    /\ DiscoverReturned
    /\ Len(lastCall.ret.discovered) = 1
    /\ lastCall.ret.discovered[1].Type = "script"
    /\ lastCall.ret.discovered[1].Name = << "x" >>
    /\ \E name \in DOMAIN fsys.dir.entries :
          fsys.dir.entries[name] = [ kind |-> "file", mode |-> 420,
                                     gone |-> FALSE ]

----------------------------------------------------------------------------
\* ValidateConfig, SaveConfig and LoadConfig (internal/config/config.go)

DefaultTimeout == 30

\* a connector that validation accepts as it is
BaseConnector ==
    [ Name |-> << "a" >>, Type |-> "script", Enabled |-> TRUE,
      Path |-> ScriptPath, Settings |-> NoSettings,
      Timeout |-> 10, RetryCount |-> 2, RetryDelay |-> 7 ]

\* a byte that is no UTF-8 text, and what encoding/json writes for it
InvalidByte == "<ff>"
ReplacementChar == "<U+FFFD>"

\* the connectors of the Configs: the one above and the ones that differ
\* from it in a name, in type, path and settings, or in a number
ConfConnectors ==
    { BaseConnector,
      [ BaseConnector EXCEPT !.Name = << >> ],
      [ BaseConnector EXCEPT !.Name = << "a", "b" >>, !.Enabled = FALSE ],
      [ BaseConnector EXCEPT !.Name = << "a", InvalidByte >> ],
      [ BaseConnector EXCEPT !.Type = "" ],
      [ BaseConnector EXCEPT !.Type = "ftp" ],
      [ BaseConnector EXCEPT !.Type = "executable", !.Path = << >> ],
      [ BaseConnector EXCEPT !.Path = << >> ],
      [ BaseConnector EXCEPT !.Type = "http", !.Path = << >>,
                             !.Settings = URLSettings ],
      [ BaseConnector EXCEPT !.Type = "http" ],
      [ BaseConnector EXCEPT !.Timeout = 0 ],
      [ BaseConnector EXCEPT !.RetryCount = 0 - 1 ],
      [ BaseConnector EXCEPT !.RetryDelay = 0 ],
      [ BaseConnector EXCEPT !.Timeout = 0 - 1, !.RetryCount = 0,
                             !.RetryDelay = 0 - 1 ] }

RECURSIVE ConfLists(_)
ConfLists(n) ==
    IF n = 0 THEN { << >> }
    ELSE ConfLists(n - 1)
           \cup { Append(c, x) :
                    c \in { y \in ConfLists(n - 1) : Len(y) = n - 1 },
                    x \in ConfConnectors }

DefaultConfig ==
    [ Connectors |-> << >>,
      ConnectorPath |-> << "/etc/fail2ban/connectors" >>,
      GeoIP |-> [ Enabled |-> TRUE, APIKey |-> "", Service |-> "ipapi",
                  Cache |-> TRUE, TTL |-> DefaultTTL ],
      Debug |-> FALSE, Timeout |-> DefaultTimeout ]

\* the Configs handed to ValidateConfig and SaveConfig
ConfigValues ==
    [ Connectors : ConfLists(MaxConfConn),
      ConnectorPath : { << >>, << "/etc/fail2ban/connectors" >> },
      GeoIP : { DefaultConfig.GeoIP,
                [ Enabled |-> FALSE, APIKey |-> "key", Service |-> "maxmind",
                  Cache |-> FALSE, TTL |-> 0 ] },
      Debug : BOOLEAN, Timeout : { 0, 60 } ]
      \cup { DefaultConfig }

\* variant: an empty path is accepted for every type
validateConnector_AnyPath(i, connector) ==
    IF connector.Name = << >>
    THEN Errorf(<< "connector[" >> \o Itoa(i)
                  \o << "]: name cannot be empty" >>)
    ELSE IF connector.Type \notin { "script", "executable", "http" }
    THEN Errorf(<< "connector[" >> \o Itoa(i) \o << "]: invalid type" >>)
    ELSE IF connector.Type = "http" /\ "url" \notin DOMAIN connector.Settings
    THEN Errorf(<< "connector[" >> \o Itoa(i)
                  \o << "]: HTTP connector must have 'url' setting" >>)
    ELSE Nil

\* validateConnector(config, i, connector): the first complaint, or Nil
validateConnector(i, connector) ==
    IF connector.Name = << >>
    THEN Errorf(<< "connector[" >> \o Itoa(i)
                  \o << "]: name cannot be empty" >>)
    ELSE IF connector.Type = ""
    THEN Errorf(<< "connector[" >> \o Itoa(i)
                  \o << "]: type cannot be empty" >>)
    ELSE IF connector.Type \notin { "script", "executable", "http" }
    THEN Errorf(<< "connector[" >> \o Itoa(i) \o << "]: invalid type" >>)
    ELSE IF connector.Type # "http" /\ connector.Path = << >>
    THEN Errorf(<< "connector[" >> \o Itoa(i)
                  \o << "]: path cannot be empty" >>)
    ELSE IF connector.Type = "http" /\ "url" \notin DOMAIN connector.Settings
    THEN Errorf(<< "connector[" >> \o Itoa(i)
                  \o << "]: HTTP connector must have 'url' setting" >>)
    ELSE Nil

validateGeoIPConfig(cfg) ==
    LET named == IF cfg.GeoIP.Service \notin { "ipapi", "ipgeolocation" }
                 THEN [ cfg EXCEPT !.GeoIP.Service = "ipapi" ] ELSE cfg
    IN  IF named.GeoIP.TTL <= 0
        THEN [ named EXCEPT !.GeoIP.TTL = DefaultTTL ] ELSE named

\* variant: a connector without timeout gets 30 seconds
SetDefaults_Thirty(connector, timeout) ==
    [ connector EXCEPT
        !.Timeout = IF @ <= 0 THEN DefaultTimeout ELSE @,
        !.RetryCount = IF @ < 0 THEN 0 ELSE @,
        !.RetryDelay = IF @ <= 0 THEN DefaultRetryDelay ELSE @ ]

\* the default values ValidateConfig writes into config.Connectors[i]
SetDefaults(connector, timeout) ==
    [ connector EXCEPT
        !.Timeout = IF @ <= 0 THEN timeout ELSE @,
        !.RetryCount = IF @ < 0 THEN 0 ELSE @,
        !.RetryDelay = IF @ <= 0 THEN DefaultRetryDelay ELSE @ ]

\* the loop of ValidateConfig from connector i on: it stops at the first
\* connector that validateConnector rejects, leaving the defaults it has
\* written so far
RECURSIVE ValidateFrom(_, _)
ValidateFrom(cfg, i) ==
    IF i > Len(cfg.Connectors)
    THEN [ config |-> validateGeoIPConfig(cfg), err |-> Nil ]
    ELSE IF validateConnector(i - 1, cfg.Connectors[i]) # Nil
    THEN [ config |-> cfg,
           err |-> validateConnector(i - 1, cfg.Connectors[i]) ]
    ELSE ValidateFrom([ cfg EXCEPT !.Connectors[i] =
                                     SetDefaults(@, cfg.Timeout) ], i + 1)

\* ValidateConfig(config): the Config as it leaves it, and the error
ValidateConfig(cfg) ==
    IF cfg.ConnectorPath = << >>
    THEN [ config |-> cfg,
           err |-> Errorf(<< "connector_path cannot be empty" >>) ]
    ELSE ValidateFrom(IF cfg.Timeout <= 0
                      THEN [ cfg EXCEPT !.Timeout = DefaultTimeout ]
                      ELSE cfg, 1)

CallValidateConfig ==
    /\ config' = ValidateConfig(config).config
    /\ lastCall' = [ op |-> "ValidateConfig", before |-> config,
                     err |-> ValidateConfig(config).err ]
    /\ UNCHANGED << fsys, main, engineVars, scriptVars, geoVars >>

\* no config file has been written
NoFile == [ kind |-> "none" ]

\* what encoding/json writes for a Go string: bytes that are no UTF-8 text
\* become the replacement character
JSONText(str) ==
    [ i \in DOMAIN str |->
        IF str[i] = InvalidByte THEN ReplacementChar ELSE str[i] ]

\* json.MarshalIndent(config): the members of the document, by their json
\* names; api_key is left out when it is empty
MarshalConfig(cfg) ==
    [ connectors |->
        [ i \in DOMAIN cfg.Connectors |->
            [ name |-> JSONText(cfg.Connectors[i].Name),
              type |-> cfg.Connectors[i].Type,
              enabled |-> cfg.Connectors[i].Enabled,
              path |-> JSONText(cfg.Connectors[i].Path),
              settings |-> cfg.Connectors[i].Settings,
              timeout |-> cfg.Connectors[i].Timeout,
              retry_count |-> cfg.Connectors[i].RetryCount,
              retry_delay |-> cfg.Connectors[i].RetryDelay ] ],
      connector_path |-> JSONText(cfg.ConnectorPath),
      geoip |-> IF cfg.GeoIP.APIKey = ""
                THEN [ enabled |-> cfg.GeoIP.Enabled,
                       service |-> cfg.GeoIP.Service,
                       cache |-> cfg.GeoIP.Cache, ttl |-> cfg.GeoIP.TTL ]
                ELSE [ enabled |-> cfg.GeoIP.Enabled,
                       api_key |-> cfg.GeoIP.APIKey,
                       service |-> cfg.GeoIP.Service,
                       cache |-> cfg.GeoIP.Cache, ttl |-> cfg.GeoIP.TTL ],
      debug |-> cfg.Debug,
      timeout |-> cfg.Timeout ]

\* variant: the debug member is not read
UnmarshalConfig_NoDebug(doc, into) ==
    [ Connectors |->
        [ i \in DOMAIN doc.connectors |->
            [ Name |-> doc.connectors[i].name,
              Type |-> doc.connectors[i].type,
              Enabled |-> doc.connectors[i].enabled,
              Path |-> doc.connectors[i].path,
              Settings |-> doc.connectors[i].settings,
              Timeout |-> doc.connectors[i].timeout,
              RetryCount |-> doc.connectors[i].retry_count,
              RetryDelay |-> doc.connectors[i].retry_delay ] ],
      ConnectorPath |-> doc.connector_path,
      GeoIP |-> [ Enabled |-> doc.geoip.enabled,
                  APIKey |-> IF "api_key" \in DOMAIN doc.geoip
                             THEN doc.geoip.api_key ELSE into.GeoIP.APIKey,
                  Service |-> doc.geoip.service,
                  Cache |-> doc.geoip.cache, TTL |-> doc.geoip.ttl ],
      Debug |-> into.Debug,
      Timeout |-> doc.timeout ]

\* json.Unmarshal(data, config): every member of the document overwrites
\* the field of its name; a field without member keeps its value
UnmarshalConfig(doc, into) ==
    [ Connectors |->
        [ i \in DOMAIN doc.connectors |->
            [ Name |-> doc.connectors[i].name,
              Type |-> doc.connectors[i].type,
              Enabled |-> doc.connectors[i].enabled,
              Path |-> doc.connectors[i].path,
              Settings |-> doc.connectors[i].settings,
              Timeout |-> doc.connectors[i].timeout,
              RetryCount |-> doc.connectors[i].retry_count,
              RetryDelay |-> doc.connectors[i].retry_delay ] ],
      ConnectorPath |-> doc.connector_path,
      GeoIP |-> [ Enabled |-> doc.geoip.enabled,
                  APIKey |-> IF "api_key" \in DOMAIN doc.geoip
                             THEN doc.geoip.api_key ELSE into.GeoIP.APIKey,
                  Service |-> doc.geoip.service,
                  Cache |-> doc.geoip.cache, TTL |-> doc.geoip.ttl ],
      Debug |-> doc.debug,
      Timeout |-> doc.timeout ]

\* SaveConfig(configPath, config): the file is written, or the directory
\* or the file cannot be written and the error is returned
CallSaveConfig ==
    /\ \E ok \in BOOLEAN :
          IF ok
          THEN /\ fsys' = [ file |-> MarshalConfig(config),
                            written |-> config ]
               /\ lastCall' = [ op |-> "SaveConfig", err |-> Nil ]
          ELSE /\ fsys' = fsys
               /\ lastCall' = [ op |-> "SaveConfig",
                                err |-> Errorf(<< "failed to write config ",
                                                  "file: ", "read-only" >>) ]
    /\ UNCHANGED << config, main, engineVars, scriptVars, geoVars >>

\* LoadConfig(configPath): without a file the default Config is saved and
\* returned; otherwise the file is decoded over the default Config and
\* validated
CallLoadConfig ==
    /\ IF fsys.file = NoFile
       THEN /\ fsys' = [ file |-> MarshalConfig(DefaultConfig),
                         written |-> DefaultConfig ]
            /\ lastCall' = [ op |-> "LoadConfig", created |-> TRUE,
                             ret |-> DefaultConfig, err |-> Nil ]
       ELSE LET v == ValidateConfig(UnmarshalConfig(fsys.file, DefaultConfig))
            IN  /\ fsys' = fsys
                /\ lastCall' =
                      IF v.err # Nil
                      THEN [ op |-> "LoadConfig", created |-> FALSE,
                             ret |-> Nil,
                             err |-> Errorf(<< "invalid configuration: " >>
                                              \o v.err.text) ]
                      ELSE [ op |-> "LoadConfig", created |-> FALSE,
                             ret |-> v.config, err |-> Nil ]
    /\ UNCHANGED << config, main, engineVars, scriptVars, geoVars >>

InitConfig ==
    /\ Connectors = << >>
    /\ mgr = "idle" /\ op = "none" /\ arg = << >> /\ task = << >>
    /\ errChan = << >> /\ result = Pending
    /\ input = NoInput /\ child = NoChild
    /\ GeoUnused
    /\ main = NoMain
    /\ config \in ConfigValues
    /\ fsys = [ file |-> NoFile, written |-> NoConfig ]
    /\ lastCall = NoCall

NextConfig == CallValidateConfig \/ CallSaveConfig \/ CallLoadConfig

SpecConfig == InitConfig /\ [][NextConfig]_vars

\* ValidateConfig has returned; lastCall.before is the Config it was given
Validated == lastCall.op = "ValidateConfig"

\* two connectors of the Config carry the same name
DuplicateNames(cfg) ==
    \E i, j \in DOMAIN cfg.Connectors :
        i # j /\ cfg.Connectors[i].Name = cfg.Connectors[j].Name

\* C26: ValidateConfig returns a validation error for every Config in which
\* two connectors have the same Name.
C26_DuplicateNames ==
    (Validated /\ DuplicateNames(lastCall.before)) => lastCall.err # Nil

Malformed(c) ==
    \/ c.Name = << >>
    \/ c.Type \notin { "script", "executable", "http" }
    \/ c.Type # "http" /\ c.Path = << >>
    \/ c.Type = "http" /\ "url" \notin DOMAIN c.Settings

\* C28: ValidateConfig accepts the default configuration, and returns an
\* error for every Config that has an empty connector path, or a connector
\* with an empty name, a type other than script/executable/http, an empty
\* path on a type other than http, or the type http without a url setting.
C28_ConfigErrors ==
    Validated =>
        /\ lastCall.before = DefaultConfig => lastCall.err = Nil
        /\ lastCall.before.ConnectorPath = << >> => lastCall.err # Nil
        /\ (\E i \in DOMAIN lastCall.before.Connectors :
               Malformed(lastCall.before.Connectors[i]))
              => lastCall.err # Nil

\* a Config whose second connector is an executable without path has been
\* rejected, its first connector being in order
C28_Witness ==
    /\ Validated
    /\ lastCall.err # Nil
    /\ lastCall.before.ConnectorPath # << >>
    /\ Len(lastCall.before.Connectors) = 2
    /\ ~Malformed(lastCall.before.Connectors[1])
    /\ lastCall.before.Connectors[2].Type = "executable"
    /\ lastCall.before.Connectors[2].Path = << >>

\* LoadConfig has read a file; fsys.written is the Config that SaveConfig
\* wrote it from
Reloaded == lastCall.op = "LoadConfig" /\ ~lastCall.created

\* the loaded Config has the Debug flag, the number of connectors and each
\* connector's Name, Type, Enabled and Settings of the saved one, and is
\* the saved one with the defaults of ValidateConfig filled in
Preserved(saved, loaded) ==
    /\ loaded.Debug = saved.Debug
    /\ Len(loaded.Connectors) = Len(saved.Connectors)
    /\ \A i \in DOMAIN saved.Connectors :
          /\ loaded.Connectors[i].Name = saved.Connectors[i].Name
          /\ loaded.Connectors[i].Type = saved.Connectors[i].Type
          /\ loaded.Connectors[i].Enabled = saved.Connectors[i].Enabled
          /\ loaded.Connectors[i].Settings = saved.Connectors[i].Settings
    /\ loaded = ValidateConfig(saved).config

\* every string of the Config is UTF-8 text
ValidText(cfg) ==
    /\ \A k \in DOMAIN cfg.ConnectorPath : cfg.ConnectorPath[k] # InvalidByte
    /\ \A i \in DOMAIN cfg.Connectors :
          /\ \A k \in DOMAIN cfg.Connectors[i].Name :
                cfg.Connectors[i].Name[k] # InvalidByte
          /\ \A k \in DOMAIN cfg.Connectors[i].Path :
                cfg.Connectors[i].Path[k] # InvalidByte

----------------------------------------------------------------------------
\* Config.AddConnector, RemoveConnector and UpdateConnector
\* (internal/config/config.go)

\* the connectors handed to AddConnector and UpdateConnector
RegConnectors ==
    { [ BaseConnector EXCEPT !.Name = n, !.Enabled = en ] :
        n \in Names, en \in BOOLEAN }

\* the index of the first connector called name, 0 without one
FirstNamed(connectors, name) ==
    IF \E i \in DOMAIN connectors : connectors[i].Name = name
    THEN CHOOSE i \in DOMAIN connectors :
            /\ connectors[i].Name = name
            /\ \A j \in DOMAIN connectors :
                  connectors[j].Name = name => i <= j
    ELSE 0

\* c.Connectors = append(c.Connectors, *connector)
AddConnector(connector) ==
    /\ Len(config.Connectors) < MaxRegConn
    /\ config' = [ config EXCEPT !.Connectors = Append(@, connector) ]
    /\ lastCall' = [ op |-> "AddConnector", connector |-> connector,
                     before |-> config ]
    /\ UNCHANGED << fsys, main, engineVars, scriptVars, geoVars >>

\* the first connector called name is cut out
RemoveConnector(name) ==
    LET i == FirstNamed(config.Connectors, name)
    IN  /\ config' = IF i = 0 THEN config
                      ELSE [ config EXCEPT !.Connectors =
                               SubSeq(@, 1, i - 1) \o SubSeq(@, i + 1, Len(@)) ]
        /\ lastCall' = [ op |-> "RemoveConnector", name |-> name,
                         ret |-> i # 0, before |-> config ]
        /\ UNCHANGED << fsys, main, engineVars, scriptVars, geoVars >>

\* the first connector called name is overwritten
UpdateConnector(name, updatedConnector) ==
    LET i == FirstNamed(config.Connectors, name)
    IN  /\ config' = IF i = 0 THEN config
                      ELSE [ config EXCEPT !.Connectors[i] = updatedConnector ]
        /\ lastCall' = [ op |-> "UpdateConnector", name |-> name,
                         connector |-> updatedConnector,
                         ret |-> i # 0, before |-> config ]
        /\ UNCHANGED << fsys, main, engineVars, scriptVars, geoVars >>

InitRegistry ==
    /\ Connectors = << >>
    /\ mgr = "idle" /\ op = "none" /\ arg = << >> /\ task = << >>
    /\ errChan = << >> /\ result = Pending
    /\ input = NoInput /\ child = NoChild
    /\ GeoUnused
    /\ main = NoMain
    /\ config = DefaultConfig
    /\ fsys = NoFiles
    /\ lastCall = NoCall

NextRegistry ==
    \/ \E c \in RegConnectors : AddConnector(c)
    \/ \E n \in Names : RemoveConnector(n)
    \/ \E n \in Names, c \in RegConnectors : UpdateConnector(n, c)

SpecRegistry == InitRegistry /\ [][NextRegistry]_vars

\* GetEnabledConnectors holds a connector of that name
EnabledContains(name) ==
    \E i \in DOMAIN GetEnabledConnectors(config.Connectors) :
        GetEnabledConnectors(config.Connectors)[i].Name = name

\* C29: after any sequence of AddConnector, UpdateConnector and
\* RemoveConnector the lookups reflect the last operation: after
\* AddConnector(c), GetConnectorByName(c.Name) is found; after
\* UpdateConnector(n, c) has returned true, GetEnabledConnectors contains
\* the connector iff c.Enabled; after RemoveConnector(n) has returned true,
\* GetConnectorByName(n) is not found; UpdateConnector and RemoveConnector
\* return true iff a connector named n was present.
C29_Registry ==
    /\ lastCall.op = "AddConnector" =>
          GetConnectorByName(config.Connectors, lastCall.connector.Name).found
    /\ (lastCall.op = "UpdateConnector" /\ lastCall.ret) =>
          (EnabledContains(lastCall.connector.Name)
             <=> lastCall.connector.Enabled)
    /\ (lastCall.op = "RemoveConnector" /\ lastCall.ret) =>
          ~GetConnectorByName(config.Connectors, lastCall.name).found
    /\ lastCall.op \in { "UpdateConnector", "RemoveConnector" } =>
          (lastCall.ret <=>
             \E i \in DOMAIN lastCall.before.Connectors :
                lastCall.before.Connectors[i].Name = lastCall.name)

\* ------------------------------------------------ retry loop, as specified
\* the loop whose exit test follows the dispatch ("attempt += 1; if attempt >
\* RetryCount: break"), run over the outcomes outs; Pending when it needs an
\* outcome that outs does not hold
RECURSIVE RetryLoop(_, _, _, _, _)
RetryLoop(c, outs, attempt, lastErr, log) ==
    LET log1 == IF attempt > 0
                THEN Append(log, [ ev |-> "sleep", d |-> c.RetryDelay ])
                ELSE log
    IN  IF outs = << >>
        THEN [ ret |-> Pending, log |-> log1 ]
        ELSE LET log2 == Append(log1, [ ev |-> "dispatch",
                                        err |-> Head(outs) ])
             IN  IF Head(outs) = Nil
                 THEN [ ret |-> Nil, log |-> log2 ]
                 ELSE IF attempt + 1 > c.RetryCount
                 THEN [ ret |-> [ kind |-> "RetriesExhausted",
                                  name |-> c.Name,
                                  attempts |-> c.RetryCount + 1,
                                  cause |-> Head(outs) ],
                        log |-> log2 ]
                 ELSE RetryLoop(c, Tail(outs), attempt + 1, Head(outs), log2)

\* C31: executeConnector is equivalent to the retry loop of the
\* specification for every RetryCount a connector can carry (values below 0
\* included) and every sequence of dispatch outcomes: a finished activation
\* of a connector of a dispatchable type has performed the dispatches and
\* sleeps, and returned the result, that the specified loop yields on the
\* same outcomes, and it has dispatched at least once.
C31_RetryLoopEquivalent ==
    \A t \in DOMAIN task :
        (IsDone(t) /\ task[t].conn.Type \in { "script", "executable", "http" })
          => /\ DispatchIdx(task[t].log) # { }
             /\ RetryLoop(task[t].conn, OutcomesOf(task[t].log), 0, Nil,
                          << >>)
                  = [ ret |-> task[t].ret, log |-> task[t].log ]

\* ------------------------------- ExecuteAll beside the mutators of Config
\* the connectors the Config starts with, and the ones a concurrent caller
\* stores: same names, every other field different
SnapshotOriginal(name) ==
    [ Name |-> name, Type |-> "script", Enabled |-> TRUE, Path |-> 1,
      Settings |-> NoSettings, Timeout |-> 10, RetryCount |-> 1,
      RetryDelay |-> DefaultRetryDelay ]

SnapshotChanged(name) ==
    [ Name |-> name, Type |-> "http", Enabled |-> TRUE, Path |-> 2,
      Settings |-> URLSettings, Timeout |-> 60, RetryCount |-> 0,
      RetryDelay |-> 1 ]

SnapshotConnectors == { SnapshotChanged(n) : n \in Names }

\* c.Connectors = append(c.Connectors, *connector), from another goroutine
ConcurrentAddConnector(connector) ==
    /\ Len(Connectors) < MaxRegConn
    /\ Connectors' = Append(Connectors, connector)
    /\ UNCHANGED << mgr, op, arg, task, errChan, result >>
    /\ UNCHANGED nonEngineVars

\* the first connector called name is cut out of c.Connectors
ConcurrentRemoveConnector(name) ==
    LET i == FirstNamed(Connectors, name)
    IN  /\ i # 0
        /\ Connectors' = SubSeq(Connectors, 1, i - 1)
                           \o SubSeq(Connectors, i + 1, Len(Connectors))
        /\ UNCHANGED << mgr, op, arg, task, errChan, result >>
        /\ UNCHANGED nonEngineVars

\* variant: the activations hold references into c.Connectors, so the
\* overwrite shows in the activation of that connector
ConcurrentUpdateConnector_Aliased(name, updatedConnector) ==
    LET i == FirstNamed(Connectors, name)
    IN  /\ i # 0
        /\ Connectors[i] # updatedConnector
        /\ Connectors' = [ Connectors EXCEPT ![i] = updatedConnector ]
        /\ task' = [ t \in DOMAIN task |->
                       IF task[t].conn.Name = name
                       THEN [ task[t] EXCEPT !.conn = updatedConnector ]
                       ELSE task[t] ]
        /\ UNCHANGED << mgr, op, arg, errChan, result >>
        /\ UNCHANGED nonEngineVars

\* c.Connectors[i] = *updatedConnector for the first connector called name;
\* the activations run on the values GetEnabledConnectors copied
ConcurrentUpdateConnector(name, updatedConnector) ==
    LET i == FirstNamed(Connectors, name)
    IN  /\ i # 0
        /\ Connectors[i] # updatedConnector
        /\ Connectors' = [ Connectors EXCEPT ![i] = updatedConnector ]
        /\ UNCHANGED << mgr, op, arg, task, errChan, result >>
        /\ UNCHANGED nonEngineVars

InitSnapshot ==
    /\ Connectors \in { << SnapshotOriginal(n) >> : n \in Names } \cup
                      { << SnapshotOriginal(n1), SnapshotOriginal(n2) >> :
                          n1 \in Names, n2 \in Names }
    /\ mgr = "idle" /\ op = "none" /\ arg = << >> /\ task = << >>
    /\ errChan = << >> /\ result = Pending
    /\ input = NoInput /\ child = NoChild
    /\ GeoUnused
    /\ AdminUnused

\* one ExecuteAll and, while it runs, the mutators of the Config beside it
NextSnapshot ==
    \/ (op = "none" /\ CallExecuteAll)
    \/ ReturnExecuteAll
    \/ \E t \in DOMAIN task : Attempt(t)
    \/ (mgr = "running" /\ \E c \in SnapshotConnectors :
                              ConcurrentAddConnector(c))
    \/ (mgr = "running" /\ \E n \in Names : ConcurrentRemoveConnector(n))
    \/ (mgr = "running" /\ \E n \in Names, c \in SnapshotConnectors :
                              ConcurrentUpdateConnector(n, c))

SpecSnapshot == InitSnapshot /\ [][NextSnapshot]_vars

\* the connector values the activations of the call run on
SnapshotOf(ts) == [ t \in DOMAIN ts |-> ts[t].conn ]

\* C32: the connectors an ExecuteAll runs, and every field of each, are
\* fixed when the call starts: the activations are those of the connectors
\* enabled at that time, no step taken while they run (AddConnector,
\* UpdateConnector and RemoveConnector included) changes their number or a
\* field of their connectors, and each finished activation has made the
\* attempts and sleeps that its snapshot value determines.
C32_Snapshot ==
    [][ /\ (mgr = "idle" /\ mgr' = "running")
           => SnapshotOf(task') = GetEnabledConnectors(Connectors)
        /\ mgr = "running" => SnapshotOf(task') = SnapshotOf(task)
        /\ \A t \in DOMAIN task' :
              task'[t].pc = "done"
                => /\ task'[t].log = Solo(task'[t]).log
                   /\ task'[t].ret = Solo(task'[t]).ret ]_vars

\* while an activation is still retrying, the Config no longer holds what
\* the call started with: the connector of the activation was overwritten
\* with another type and retry count, and a sibling was removed
C32_Witness ==
    /\ mgr = "running"
    /\ op = "ExecuteAll"
    /\ Len(task) = 2
    /\ \E t \in DOMAIN task :
          /\ task[t].pc = "top"
          /\ task[t].attempt = 1
          /\ task[t].conn = SnapshotOriginal(task[t].conn.Name)
    /\ Len(Connectors) = 1
    /\ Connectors[1] \notin { SnapshotOriginal(n) : n \in Names }

\* ------------------------------------- executeScript: the run of the child
\* Timeout in seconds; 0 is what a Config that never went through
\* ValidateConfig can carry
RunTimeouts == { 0, 1, 2 }

RunConnectors ==
    [ Name : { << "a" >> }, Type : { "script", "executable" },
      Enabled : { TRUE }, Path : { 1 }, Settings : { NoSettings },
      Timeout : RunTimeouts, RetryCount : { 0 },
      RetryDelay : { DefaultRetryDelay } ]

\* ctx.Err() == context.DeadlineExceeded, at the time it is asked
DeadlineExceeded(c) == c.clock >= c.timeout

\* context.WithTimeout and the start of cmd.Run(): the child runs, unless the
\* context has expired already, in which case Run returns its error at once
\* and no process is started
StartCommand ==
    /\ child # NoChild
    /\ child.kind = "cmd"
    /\ LET timeout == input.connector.Timeout
       IN  child' = [ kind |-> "proc", clock |-> 0, timeout |-> timeout,
                      state |-> IF timeout <= 0 THEN "unstarted"
                                                ELSE "running",
                      code |-> 0,
                      expiry |-> IF timeout <= 0 THEN "unstarted"
                                                 ELSE "pending",
                      err |-> Pending, ret |-> Pending ]
    /\ UNCHANGED << input, engineVars, geoVars, main, adminVars >>

\* a second passes; when it is the one the deadline falls in, what the
\* process was doing at that time is kept
ClockTick ==
    /\ child # NoChild
    /\ child.kind = "proc"
    /\ child.ret = Pending
    /\ child.clock < MaxClock
    /\ child' = [ child EXCEPT
                    !.clock = @ + 1,
                    !.expiry = IF child.clock + 1 = child.timeout
                               THEN child.state ELSE @ ]
    /\ UNCHANGED << input, engineVars, geoVars, main, adminVars >>

\* the process ends on its own with an exit code
ProcessExit(code) ==
    /\ child # NoChild
    /\ child.kind = "proc"
    /\ child.state = "running"
    /\ child' = [ child EXCEPT !.state = "exited", !.code = code ]
    /\ UNCHANGED << input, engineVars, geoVars, main, adminVars >>

\* exec.CommandContext: once the context is done, a process that is still
\* running is killed
KillOnDeadline ==
    /\ child # NoChild
    /\ child.kind = "proc"
    /\ child.state = "running"
    /\ DeadlineExceeded(child)
    /\ child' = [ child EXCEPT !.state = "killed" ]
    /\ UNCHANGED << input, engineVars, geoVars, main, adminVars >>

\* err = cmd.Run(): nil for exit code 0, an error for every other end
RunReturns ==
    /\ child # NoChild
    /\ child.kind = "proc"
    /\ child.state \in { "exited", "killed", "unstarted" }
    /\ child.err = Pending
    /\ child' = [ child EXCEPT
                    !.err = IF child.state = "exited" /\ child.code = 0
                            THEN Nil
                            ELSE [ kind |-> "RunError",
                                   state |-> child.state ] ]
    /\ UNCHANGED << input, engineVars, geoVars, main, adminVars >>

\* variant: the timeout is told by how the process ended
ClassifyError_ByKill(c) ==
    IF c.err = Nil THEN Nil
    ELSE IF c.state = "killed" THEN [ kind |-> "Timeout" ]
    ELSE [ kind |-> "ProcessExecutionFailed" ]

\* if err != nil { if ctx.Err() == context.DeadlineExceeded {...} ... }
ClassifyError(c) ==
    IF c.err = Nil THEN Nil
    ELSE IF DeadlineExceeded(c) THEN [ kind |-> "Timeout" ]
    ELSE [ kind |-> "ProcessExecutionFailed" ]

\* the rest of executeScript, after cmd.Run() and the debug output
ReturnExecuteScript ==
    /\ child # NoChild
    /\ child.kind = "proc"
    /\ child.err # Pending
    /\ child.ret = Pending
    /\ child' = [ child EXCEPT !.ret = ClassifyError(child) ]
    /\ UNCHANGED << input, engineVars, geoVars, main, adminVars >>

InitRun ==
    /\ Connectors = << >>
    /\ mgr = "idle" /\ op = "none" /\ arg = << >> /\ task = << >>
    /\ errChan = << >> /\ result = Pending
    /\ input \in [ connector : RunConnectors,
                   data : { d \in NotificationData :
                              d.Failures = 1 /\ d.Jail = << "sshd" >> },
                   environ : Environs ]
    /\ child = NoChild
    /\ GeoUnused
    /\ AdminUnused

NextRun ==
    \/ PrepareCommand
    \/ StartCommand
    \/ ClockTick
    \/ \E code \in { 0, 1 } : ProcessExit(code)
    \/ KillOnDeadline
    \/ RunReturns
    \/ ReturnExecuteScript

SpecRun == InitRun /\ [][NextRun]_vars

\* executeScript has returned
ScriptReturned ==
    /\ child # NoChild
    /\ child.kind = "proc"
    /\ child.ret # Pending

\* C33: a script/executable dispatch reports Timeout iff the process was
\* still running when the deadline expired and was killed for it; a process
\* that exited with a non-zero code on its own is reported as an execution
\* failure, never as a timeout.
C33_TimeoutIffKilled ==
    ScriptReturned =>
        /\ (child.ret = [ kind |-> "Timeout" ])
             <=> (child.expiry = "running" /\ child.state = "killed")
        /\ (child.state = "exited" /\ child.code # 0)
             => child.ret = [ kind |-> "ProcessExecutionFailed" ]

\* ------------------------------------------------- writes to the cache
\* call i returns in this step
Returns(i) ==
    /\ calls'[i].pc = "done"
    /\ i \in DOMAIN calls => calls[i].pc # "done"

\* C34: a cache entry is written only by a Lookup whose backend call
\* succeeded. A step that changes the cache is either ClearCache or the
\* return of a Lookup that asked the backend, got an answer and runs with
\* the cache enabled, and it stores that answer under the IP; every Lookup
\* that returns otherwise (backend failure, invalid IP, private IP, cache
\* hit, GeoIP or cache disabled) leaves the cache as it was. No entry holds
\* the IP-only GeoInfo of a failure, and the Lookup of the same IP that
\* follows a failed one, the entry under that IP being what the failed one
\* found, asks the backend again.
C34_CacheWrites ==
    [][ /\ cache' # cache =>
             \/ cache' = NoCache
             \/ \E i \in DOMAIN calls :
                   /\ calls[i].pc = "backend"
                   /\ Returns(i)
                   /\ calls'[i].answer.ok
                   /\ geo.config.Enabled /\ geo.config.Cache
                   /\ cache' = setCached(cache, now, calls[i].ip,
                                         calls'[i].answer.info)
        /\ \A i \in DOMAIN calls' :
              (Returns(i) /\ ~(calls'[i].backend >= 1 /\ calls'[i].answer.ok
                                 /\ geo.config.Cache))
                 => cache' = cache
        /\ \A ip \in DOMAIN cache' : cache'[ip].info # IPOnly(ip)
        /\ \A i, j \in DOMAIN calls' :
              (/\ calls'[i].pc = "done"
               /\ calls'[i].backend >= 1
               /\ ~calls'[i].answer.ok
               /\ i \in calls'[j].prior
               /\ calls'[j].ip = calls'[i].ip
               /\ calls'[j].saw = calls'[i].saw)
                 => (calls'[j].backend >= 1 \/ calls'[j].pc = "backend")
      ]_vars

\* with the cache enabled, the backend failed for a Lookup, and the Lookup
\* of the same IP that began after it asked the backend again and got an
\* answer, which it stored
C34_Witness ==
    /\ geo # NoManager
    /\ geo.config.Cache
    /\ \E i, j \in DOMAIN calls :
          /\ BackendFailed(i)
          /\ i \in calls[j].prior
          /\ calls[j].ip = calls[i].ip
          /\ CallDone(j)
          /\ calls[j].backend >= 1
          /\ calls[j].wrote
          /\ calls[j].ip \in DOMAIN cache

\* ------------------------------------------------ life of a cache entry
\* a manager that caches and whose Lookups reach their backend; the clock
\* starts one second before the instant 0, so that an entry under a TTL of
\* one second can be seen fresh, exactly TTL old, and stale
InitCache ==
    /\ EngineUnused
    /\ AdminUnused
    /\ geo \in { NewManager(cfg) :
                   cfg \in { c \in GeoIPConfig :
                               /\ c.Enabled
                               /\ c.Cache
                               /\ c.Service = "ipapi" /\ c.APIKey = "" } }
    /\ cache = NoCache
    /\ now = 0 - 1
    /\ calls = << >>
    /\ batch = NoBatch

SpecCache == InitCache /\ [][NextGeo]_vars

\* the entry e is at most TTL seconds old at time t
Fresh(e, t) == e # Nil /\ t - e.timestamp <= geo.config.TTL

\* call j was answered from the cache, with the entry it found
Served(j) ==
    /\ CallDone(j)
    /\ calls[j].backend = 0
    /\ calls[j].err = Nil
    /\ calls[j].info = calls[j].saw.info

UnknownType(t) ==
    task[t].conn.Type \notin { "script", "executable", "http" }

\* C36: a connector whose Type is none of script, executable and http
\* fails with the unknown-connector-type error on its first loop iteration,
\* whatever its RetryCount: its finished activation has dispatched nothing,
\* slept never, made no retry, and returned that error; in ExecuteAll the
\* failure is sent tagged with the connector's name, and the other
\* connectors make the attempts and reach the results they would alone.
C36_UnknownType ==
    \A t \in DOMAIN task :
        (IsDone(t) /\ UnknownType(t)) =>
            /\ task[t].log = << >>
            /\ task[t].attempt = 0
            /\ task[t].ret = [ kind |-> "UnknownConnectorType",
                               type |-> task[t].conn.Type ]
            /\ op = "ExecuteAll" =>
                  /\ \E k \in DOMAIN errChan :
                        errChan[k] = [ kind |-> "ConnectorFailed",
                                       name |-> task[t].conn.Name,
                                       cause |-> task[t].ret ]
                  /\ \A u \in DOMAIN task :
                        (IsDone(u) /\ ~UnknownType(u)) =>
                            /\ task[u].log = Solo(task[u]).log
                            /\ task[u].ret = Solo(task[u]).ret

\* --------------------------------------------- collection of the results
\* the goroutines are scheduled and every dispatch ends (a script by its
\* exit or its timeout, a request by the client's timeout), so an iteration
\* that can be taken is taken; wg.Wait() returns once every goroutine is done
FairSpecSnapshot ==
    /\ SpecSnapshot
    /\ WF_vars(\E t \in DOMAIN task : Attempt(t))
    /\ WF_vars(ReturnExecuteAll)

\* what the goroutine of activation t sends when it has failed
ReportOf(t) ==
    [ kind |-> "ConnectorFailed", name |-> task[t].conn.Name,
      cause |-> task[t].ret ]

\* C37: the collection of ExecuteAll's results neither deadlocks nor loses
\* nor duplicates a report. At every time the channel holds exactly one
\* report per activation that has failed, in some order, and never more
\* than its capacity, the number of activations; ExecuteAll closes and
\* reads it only when every activation has finished, and returns what is in
\* it; nothing is sent after that; and an ExecuteAll that is running
\* eventually returns.
C37_Collection ==
    /\ [](op = "ExecuteAll" =>
            /\ Len(errChan) <= Len(task)
            /\ \E p \in Perms({ t \in DOMAIN task : Failed(t) }) :
                  errChan = [ i \in DOMAIN p |-> ReportOf(p[i]) ]
            /\ (mgr = "idle" /\ Len(task) >= 1) =>
                  /\ \A t \in DOMAIN task : IsDone(t)
                  /\ result = Aggregate(errChan))
    /\ [][ (mgr = "idle" /\ op = "ExecuteAll") => errChan' = errChan ]_vars
    /\ (mgr = "running" ~> mgr = "idle")

\* ExecuteAll has returned the reports of two failed connectors, the one
\* launched second having sent first
C37_Witness ==
    /\ Returned("ExecuteAll")
    /\ Len(task) = 2
    /\ Failed(1) /\ Failed(2)
    /\ task[1].conn.Name # task[2].conn.Name
    /\ errChan = << ReportOf(2), ReportOf(1) >>
    /\ result = Aggregate(errChan)

\* ------------------------------------- what others see during a test
\* C38: TestConnector never modifies the shared Config. At every step of a
\* call the Config, and with it what GetEnabledConnectors returns to any
\* caller, is what it was before the step; while the test runs the enabled
\* value is the private copy the activation works on, and the entry of the
\* Config keeps the flag it had, so a connector that is disabled is never
\* among the enabled connectors because of the test.
C38_TestIsPrivate ==
    [][ op' = "TestConnector" =>
          /\ GetEnabledConnectors(Connectors')
               = GetEnabledConnectors(Connectors)
          /\ Len(task') = 1 =>
                LET i == FirstNamed(Connectors', arg')
                IN  /\ i # 0
                    /\ Connectors'[i].Enabled = task'[1].originalEnabled
                    /\ mgr' = "running" => task'[1].conn.Enabled
                    /\ ~task'[1].originalEnabled =>
                          \A k \in DOMAIN GetEnabledConnectors(Connectors') :
                             GetEnabledConnectors(Connectors')[k]
                               # Connectors'[i]
      ]_vars

\* a disabled connector is being tested and has been dispatched, while the
\* Config holds an enabled connector of another name: GetEnabledConnectors
\* returns that one alone
C38_Witness ==
    /\ op = "TestConnector"
    /\ mgr = "running"
    /\ Len(task) = 1
    /\ ~task[1].originalEnabled
    /\ task[1].conn.Enabled
    /\ DispatchIdx(task[1].log) # { }
    /\ Len(Connectors) = 2
    /\ Len(GetEnabledConnectors(Connectors)) = 1
    /\ GetEnabledConnectors(Connectors)[1].Name # arg

\* ------------------------------------------ BatchLookup, every input size
\* the empty list, lists shorter than the semaphore and lists one longer
\* than it
SizedLists ==
    Lists(MaxBatch) \cup { l \in TaskLists : Len(l) = SemaphoreSize + 1 }

NextSized ==
    \/ \E ips \in SizedLists : CallBatchLookup(ips)
    \/ \E g \in Goroutines : GoAcquire(g)
    \/ \E g \in Goroutines : GoLookup(g)
    \/ \E g \in Goroutines : GoService(g)
    \/ \E g \in Goroutines : GoStore(g)
    \/ \E g \in Goroutines : GoRelease(g)
    \/ ReturnBatchLookup

\* a goroutine that can take a step is scheduled, the backend answers or
\* its client times out after ten seconds, and wg.Wait() returns when the
\* last goroutine is done
FairSpecSized ==
    /\ InitSem
    /\ [][NextSized]_vars
    /\ WF_vars(\E g \in Goroutines :
                  \/ GoAcquire(g) \/ GoLookup(g) \/ GoService(g)
                  \/ GoStore(g) \/ GoRelease(g))
    /\ WF_vars(ReturnBatchLookup)

\* C39: BatchLookup always terminates, and returns only after every per-IP
\* task has stored its result, for every input size: a call that was made
\* eventually returns; when it has returned every goroutine is done, every
\* input IP has its result and no semaphore slot is held; and every change
\* of the result map is the store of one goroutine, made in one step between
\* mu.Lock() and mu.Unlock().
C39_BatchTerminates ==
    /\ [](BatchReturned =>
            /\ \A g \in DOMAIN batch.go : batch.go[g].pc = "done"
            /\ InputIPs \subseteq DOMAIN batch.results
            /\ batch.semaphore = 0)
    /\ [][ (batch # NoBatch /\ batch' # NoBatch
              /\ batch'.results # batch.results) =>
             \E g \in DOMAIN batch.go :
                /\ batch.go[g].pc = "looked"
                /\ batch'.go[g].pc = "stored"
                /\ \A h \in DOMAIN batch.go \ { g } :
                      batch'.go[h] = batch.go[h]
                /\ batch'.results
                     = StoreResult(batch.results, batch.go[g].lookup)
         ]_vars
    /\ (batch # NoBatch ~> BatchReturned)

\* a call with more IPs than the semaphore has slots has returned, the
\* backend having been asked for one of them
C39_Witness ==
    /\ BatchReturned
    /\ Len(batch.ips) > SemaphoreSize
    /\ batch.semaphore = 0
    /\ \E g \in DOMAIN batch.go : batch.go[g].lookup.backend >= 1
    /\ Cardinality(DOMAIN batch.results) = 2

\* ---------------------------------------- concurrent Lookups of one IP
\* the goroutines of the batch whose Lookup of ip asked the backend and
\* got an answer
Answered(ip) ==
    { g \in DOMAIN batch.go :
        /\ batch.go[g].ip = ip
        /\ batch.go[g].pc \in { "looked", "stored", "done" }
        /\ batch.go[g].lookup.backend >= 1
        /\ batch.go[g].lookup.answer.ok }

\* C40: with the cache enabled, concurrent Lookups of the same uncached
\* public IP (a BatchLookup whose input repeats an IP) invoke the backend
\* at most once for that IP within the TTL window. Counted here are the
\* backend calls that were answered, so that a second call owes nothing to
\* a failure of the first; the clock never leaves the TTL window.
C40_OneBackendCall ==
    (batch # NoBatch /\ geo.config.Enabled /\ geo.config.Cache
       /\ now <= geo.config.TTL) =>
        \A ip \in PublicIPs : Cardinality(Answered(ip)) <= 1

====
